---- MODULE Spec2Model ----
(***************************************************************************)
(* Model of the AniList discussion plugin: the comment-tree mutator        *)
(* (like, reply, edit, delete with optimistic update, confirmation and     *)
(* rollback), the state it shares with the tray UI, and the remote calls   *)
(* that are in flight.                                                     *)
(*                                                                         *)
(* A nullable state cell (ctx.state<T | null>) is modelled as a set with   *)
(* at most one element: {} is null and {v} is the value v.                 *)
(*                                                                         *)
(* A media entry is open throughout and navigation goes to another entry.  *)
(* Left out: the thread lists and their loading, the create / edit /       *)
(* delete of a thread, the isLoading flag, and the dialog between the      *)
(* Delete button and its Confirm (the two clicks are one step).            *)
(*                                                                         *)
(* The markup parser (decodeHtmlEntities, parseComment, parseInline) is    *)
(* modelled as functions on strings, a character being a string of length  *)
(* one, and checked on its own: ParserSpec applies parseComment to a       *)
(* string, RunSpec follows the calls one parse makes.  InsertSpec applies  *)
(* the insertion of a reply to a collection.  ChainSpec is the session of  *)
(* the version whose handlers chain then, catch and finally on ctx.fetch.  *)
(***************************************************************************)
EXTENDS Integers, Sequences, FiniteSets, Bags, TLC

\* ------------------------------------------------------------------ bounds
\* Number of remote calls a session makes at most.
MaxCalls == 5
\* Largest number of comment nodes the collection may hold.
MaxNodes == 3
\* Number of distinct millisecond values Date.now() ranges over, minus one.
ClockSpan == 1

\* First value of the wall clock (Date.now()); far above every server id.
FirstNow == 100
\* Ids the server hands out for freshly persisted comments.
CanonIds == {99}
\* Texts the user may have typed into the reply box and into the edit box
\* ("" = the box is empty).
ReplyTexts == {"", "hi"}
EditTexts == {"", "b"}
\* The discussion threads of the open media entry.
Threads == {1}

NULL == {}
Some(v) == {v}
Get(cell) == CHOOSE v \in cell : TRUE

\* ----------------------------------------------------------- comment nodes
\* interface ThreadComment
ThreadComment(id, comment, likeCount, isLiked, user, childComments, isOptimistic) ==
    [id |-> id, comment |-> comment, likeCount |-> likeCount, isLiked |-> isLiked,
     user |-> user, childComments |-> childComments, isOptimistic |-> isOptimistic]

\* Comments as the server returns them (persisted, never optimistic).
Persisted(id, user, likeCount, isLiked, childComments) ==
    ThreadComment(id, "a", likeCount, isLiked, user, childComments, FALSE)

\* What the discussion backend may answer a fetchComments request with:
\* the first page of a thread, and the page after it.
FirstPages ==
    { [comments |-> << >>, hasNextPage |-> FALSE],
      [comments |-> << Persisted(1, "me", 3, FALSE, << >>) >>, hasNextPage |-> TRUE],
      [comments |-> << Persisted(1, "other", 1, TRUE,
                          << Persisted(2, "me", 0, FALSE, << >>) >>) >>,
       hasNextPage |-> FALSE] }
NextPages ==
    { [comments |-> << Persisted(3, "other", 0, FALSE, << >>) >>, hasNextPage |-> FALSE] }

\* comments.get() || []
OrEmpty(cell) == IF cell = NULL THEN << >> ELSE Get(cell)

RECURSIVE Size(_)
Size(list) ==
    IF list = << >> THEN 0
    ELSE 1 + Size(Head(list).childComments) + Size(Tail(list))

RECURSIVE IdsOf(_)
IdsOf(list) ==
    IF list = << >> THEN {}
    ELSE {Head(list).id} \cup IdsOf(Head(list).childComments) \cup IdsOf(Tail(list))

\* ------------------------------------------------------- tree transformers
\* Fault: a toggle always counts up, liked or not.
RECURSIVE updateCommentInTree_alwaysIncrement(_, _)
updateCommentInTree_alwaysIncrement(commentList, commentId) ==
    LET step(comment) ==
            IF comment.id = commentId
            THEN [comment EXCEPT !.isLiked = ~comment.isLiked,
                                 !.likeCount = comment.likeCount + 1]
            ELSE [comment EXCEPT !.childComments =
                        updateCommentInTree_alwaysIncrement(comment.childComments, commentId)]
    IN [i \in DOMAIN commentList |-> step(commentList[i])]

\* Fault: the search stops at the top-level list.
updateCommentInTree_topLevelOnly(commentList, commentId) ==
    LET step(comment) ==
            IF comment.id = commentId
            THEN [comment EXCEPT !.isLiked = ~comment.isLiked,
                                 !.likeCount = IF comment.isLiked
                                               THEN comment.likeCount - 1
                                               ELSE comment.likeCount + 1]
            ELSE comment
    IN [i \in DOMAIN commentList |-> step(commentList[i])]

\* handleToggleLike.updateCommentInTree
RECURSIVE updateCommentInTree(_, _)
updateCommentInTree(commentList, commentId) ==
    LET step(comment) ==
            IF comment.id = commentId
            THEN [comment EXCEPT !.isLiked = ~comment.isLiked,
                                 !.likeCount = IF comment.isLiked
                                               THEN comment.likeCount - 1
                                               ELSE comment.likeCount + 1]
            ELSE [comment EXCEPT !.childComments =
                                    updateCommentInTree(comment.childComments, commentId)]
    IN [i \in DOMAIN commentList |-> step(commentList[i])]

\* Fault: the reply is put in front of the replies the parent already has.
RECURSIVE addReplyToTree_prepend(_, _, _)
addReplyToTree_prepend(commentList, pId, newComment) ==
    LET step(c) ==
            IF c.id = pId
            THEN [c EXCEPT !.childComments = << newComment >> \o c.childComments]
            ELSE [c EXCEPT !.childComments =
                              addReplyToTree_prepend(c.childComments, pId, newComment)]
    IN [i \in DOMAIN commentList |-> step(commentList[i])]

\* handlePostReply.addReplyToTree
RECURSIVE addReplyToTree(_, _, _)
addReplyToTree(commentList, pId, newComment) ==
    LET step(c) ==
            IF c.id = pId
            THEN [c EXCEPT !.childComments = Append(c.childComments, newComment)]
            ELSE [c EXCEPT !.childComments = addReplyToTree(c.childComments, pId, newComment)]
    IN [i \in DOMAIN commentList |-> step(commentList[i])]

\* handlePostReply.replaceInTree
RECURSIVE replaceInTree(_, _, _)
replaceInTree(commentList, temporaryId, realComment) ==
    LET step(c) ==
            IF c.id = temporaryId
            THEN [realComment EXCEPT !.childComments = << >>]
            ELSE [c EXCEPT !.childComments =
                              replaceInTree(c.childComments, temporaryId, realComment)]
    IN [i \in DOMAIN commentList |-> step(commentList[i])]

\* handlePostReply.removeInTree
RECURSIVE removeInTree(_, _)
removeInTree(commentList, temporaryId) ==
    LET keep(c) == c.id # temporaryId
        step(c) == [c EXCEPT !.childComments = removeInTree(c.childComments, temporaryId)]
        kept == SelectSeq(commentList, keep)
    IN [i \in DOMAIN kept |-> step(kept[i])]

\* handleEditComment.findAndUpdateInTree, the rewritten tree
RECURSIVE findAndUpdateInTree(_, _, _)
findAndUpdateInTree(list, commentId, newText) ==
    LET step(c) ==
            IF c.id = commentId
            THEN [c EXCEPT !.comment = newText]
            ELSE [c EXCEPT !.childComments =
                              findAndUpdateInTree(c.childComments, commentId, newText)]
    IN [i \in DOMAIN list |-> step(list[i])]

\* Fault: the text on display is never captured.
capturedOriginalText_notCaptured(list, commentId, originalText) == originalText

\* handleEditComment.findAndUpdateInTree, the side effect on originalText:
\* map visits the list left to right and a matching node is not descended
\* into; every match assigns, so the last match in that order wins.
RECURSIVE capturedOriginalText(_, _, _)
capturedOriginalText(list, commentId, originalText) ==
    IF list = << >> THEN originalText
    ELSE LET c == Head(list)
             afterHead == IF c.id = commentId
                          THEN c.comment
                          ELSE capturedOriginalText(c.childComments, commentId, originalText)
         IN capturedOriginalText(Tail(list), commentId, afterHead)

\* handleEditComment.rollbackInTree
RECURSIVE rollbackInTree(_, _, _)
rollbackInTree(list, commentId, originalText) ==
    LET step(c) ==
            IF c.id = commentId
            THEN [c EXCEPT !.comment = originalText]
            ELSE [c EXCEPT !.childComments =
                              rollbackInTree(c.childComments, commentId, originalText)]
    IN [i \in DOMAIN list |-> step(list[i])]

\* Fault: only the top-level list is filtered.
removeCommentFromTree_topLevelOnly(list, commentId) ==
    LET keep(c) == c.id # commentId
    IN SelectSeq(list, keep)

\* handleDeleteComment.removeCommentFromTree
RECURSIVE removeCommentFromTree(_, _)
removeCommentFromTree(list, commentId) ==
    LET keep(c) == c.id # commentId
        step(c) == [c EXCEPT !.childComments = removeCommentFromTree(c.childComments, commentId)]
        kept == SelectSeq(list, keep)
    IN [i \in DOMAIN kept |-> step(kept[i])]

\* combinedComments.sort((a, b) => b.id - a.id) / (a.id - b.id): a stable
\* sort of the top-level list only.
RECURSIVE InsertSorted(_, _, _)
InsertSorted(sorted, c, sortOrder) ==
    IF sorted = << >> THEN << c >>
    ELSE LET before == IF sortOrder = "ID_DESC"
                       THEN Head(sorted).id >= c.id
                       ELSE Head(sorted).id <= c.id
         IN IF before
            THEN << Head(sorted) >> \o InsertSorted(Tail(sorted), c, sortOrder)
            ELSE << c >> \o sorted

RECURSIVE sortComments(_, _)
sortComments(list, sortOrder) ==
    IF list = << >> THEN << >>
    ELSE InsertSorted(sortComments(SubSeq(list, 1, Len(list) - 1), sortOrder),
                      list[Len(list)], sortOrder)

\* ------------------------------------------------------------ observation
\* The collection as it is displayed: its nodes in document order, each with
\* its nesting depth and without its replies.  Two collections are
\* structurally equal exactly when they read the same this way.
Entry(c, depth) ==
    [id |-> c.id, comment |-> c.comment, likeCount |-> c.likeCount, isLiked |-> c.isLiked,
     user |-> c.user, isOptimistic |-> c.isOptimistic, depth |-> depth]

RECURSIVE Flat(_, _)
Flat(list, depth) ==
    IF list = << >> THEN << >>
    ELSE << Entry(Head(list), depth) >>
         \o Flat(Head(list).childComments, depth + 1)
         \o Flat(Tail(list), depth)

Read(cell) == Flat(OrEmpty(cell), 1)

\* Positions in document order of the nodes carrying an id.
At(flat, id) == {i \in 1..Len(flat) : flat[i].id = id}

\* The text displayed by the one node carrying an id ("" when there is none
\* or more than one).
TextShown(list, id) ==
    LET flat == Flat(list, 1)
        at == At(flat, id)
    IN IF Cardinality(at) = 1 THEN flat[CHOOSE i \in at : TRUE].comment ELSE ""


\* The position of the last node of the subtree rooted at position i.
SubtreeEnd(flat, i) ==
    CHOOSE j \in i..Len(flat) :
        /\ \A k \in (i + 1)..j : flat[k].depth > flat[i].depth
        /\ j = Len(flat) \/ flat[j + 1].depth <= flat[i].depth

\* The position of the one node carrying an id.
Only(flat, id) == CHOOSE i \in At(flat, id) : TRUE
IsOnly(flat, id) == Cardinality(At(flat, id)) = 1

\* ------------------------------------------------------------------- state
VARIABLES
    currentUser,          \* ctx.state<User | null>
    view,                 \* 'list' | 'thread'
    selectedThread,       \* ctx.state<Thread | null>, the thread id
    comments,             \* ctx.state<ThreadComment[] | null>
    error,                \* ctx.state<string | null>
    replyingToCommentId,  \* ctx.state<number | null>
    editingCommentId,     \* ctx.state<number | null>
    isReplyingToThread,
    isSubmitting,         \* the busy flag
    commentSort,          \* 'ID' | 'ID_DESC'
    commentsHasNextPage,
    calls,                \* bag of the remote calls whose promise has not settled
    issued,               \* number of remote calls made so far
    uncaught,             \* some promise was rejected with no handler attached
    snap,                 \* history: the mutator step taken last
    input,                \* the string a call of parseComment is given
    resultSegments,       \* what that call returned, NULL before it
    frame                 \* the call of the parser that is being followed

vars == << currentUser, view, selectedThread, comments, error,
           replyingToCommentId, editingCommentId, isReplyingToThread, isSubmitting,
           commentSort, commentsHasNextPage, calls, issued, uncaught, snap,
           input, resultSegments, frame >>

\* A remote call in flight with what its continuation closed over: the
\* temporary id or the edited comment's id (id), the text sent or the
\* captured originalText (text), the page asked for (page).  shownText is
\* history: the text the edited comment displayed before the edit.
Call(kind, id, text, page, shownText) ==
    [kind |-> kind, id |-> id, text |-> text, page |-> page, shownText |-> shownText]

PlainCall(kind) == Call(kind, 0, "", 0, "")

Submissions == {"saveReply", "saveEdit", "deleteComment"}

\* The session makes at most MaxCalls remote calls.
Issue(c) ==
    /\ issued < MaxCalls
    /\ calls' = calls (+) SetToBag({c})
    /\ issued' = issued + 1
Settle(c) == calls (-) SetToBag({c})
Pending(kind) == {c \in BagToSet(calls) : c.kind = kind}

\* History record of a mutator step: the handler and its outcome (op), the
\* comment id it was about (id), a second number (other: the parent of a
\* reply, 0 for none; the canonical id of a confirmation; the number of nodes
\* held before a delete), a text, and where it is known the collection an
\* earlier step started from (orig, else {}).
Snap(op, id, other, text, orig) ==
    [op |-> op, id |-> id, other |-> other, text |-> text, orig |-> orig]
NoSnap == Snap("none", 0, 0, "", {})

\* A call of parseComment or parseInline (fn) as it is followed: the string
\* it was given (text), how the call was made (via), the string its caller
\* was given (from), how many calls lie between it and the outermost one
\* (depth) and, for parseInline, the text its loop has still to read (rest),
\* whether the loop has been through an iteration (iterated) and the text it
\* had to read before the last one (was).
Frame(fn, text, via, from, depth) ==
    [fn |-> fn, text |-> text, via |-> via, from |-> from, depth |-> depth,
     rest |-> text, iterated |-> FALSE, was |-> text, by |-> "none"]
NoFrame == Frame("none", "", "none", "", 0)

\* State after $ui.register has run (the ctx.state initial values); nothing
\* is being parsed.
Init ==
    /\ currentUser = NULL
    /\ view = "list"
    /\ selectedThread = NULL
    /\ comments = NULL
    /\ error = NULL
    /\ replyingToCommentId = NULL
    /\ editingCommentId = NULL
    /\ isReplyingToThread = FALSE
    /\ isSubmitting = FALSE
    /\ commentSort = "ID_DESC"
    /\ commentsHasNextPage = FALSE
    /\ calls = EmptyBag
    /\ issued = 0
    /\ uncaught = FALSE
    /\ snap = NoSnap
    /\ input = ""
    /\ resultSegments = NULL
    /\ frame = NoFrame

\* ------------------------------------------------------- what is rendered
\* tray.render: with a media entry open, mainContent is the thread or list
\* view unless an error is displayed (the thread lists count as loaded).
MainContentShown == error = NULL

ThreadViewShown ==
    /\ MainContentShown
    /\ view = "thread"
    /\ selectedThread # NULL

ListViewShown ==
    /\ MainContentShown
    /\ ~(view = "thread" /\ selectedThread # NULL)

\* renderComment: a comment that is being edited shows the edit box only,
\* without its action buttons and without its replies.
RECURSIVE RenderedComments(_, _)
RenderedComments(list, editing) ==
    IF list = << >> THEN {}
    ELSE LET c == Head(list)
         IN {c}
            \cup (IF editing = Some(c.id) THEN {} ELSE RenderedComments(c.childComments, editing))
            \cup RenderedComments(Tail(list), editing)

Shown == IF ThreadViewShown
         THEN RenderedComments(OrEmpty(comments), editingCommentId)
         ELSE {}

WithButtons == {c \in Shown : editingCommentId # Some(c.id)}

\* ------------------------------------------------- navigation and loading
\* ctx.screen.onNavigate, pathname "/entry" with the id of another entry
onNavigate ==
    /\ selectedThread' = NULL
    /\ view' = "list"
    /\ replyingToCommentId' = NULL
    /\ editingCommentId' = NULL
    /\ isSubmitting' = FALSE
    /\ commentsHasNextPage' = FALSE
    /\ snap' = NoSnap
    /\ UNCHANGED << currentUser, comments, error, isReplyingToThread,
                 commentSort, calls, issued, uncaught, input, resultSegments,
                 frame >>

\* tray.onOpen: fetchViewer() up to its await and, of
\* fetchAndSeparateAllThreads, the part this model keeps: error.set(null)
trayOnOpen ==
    LET wantViewer == currentUser = NULL
    IN /\ wantViewer \/ error # NULL
       /\ IF wantViewer THEN Issue(PlainCall("fetchViewer")) ELSE UNCHANGED << calls, issued >>
       /\ error' = NULL
       /\ snap' = NoSnap
       /\ UNCHANGED << currentUser, view, selectedThread, comments,
                    replyingToCommentId, editingCommentId,
                    isReplyingToThread, isSubmitting, commentSort,
                    commentsHasNextPage, uncaught, input, resultSegments,
                    frame >>

\* fetchViewer, after the await
fetchViewerSettles(c, ok) ==
    /\ c.kind = "fetchViewer"
    /\ calls' = Settle(c)
    /\ currentUser' = IF ok THEN Some("me") ELSE currentUser
    /\ snap' = NoSnap
    /\ UNCHANGED << view, selectedThread, comments, error, replyingToCommentId,
                 editingCommentId, isReplyingToThread, isSubmitting,
                 commentSort, commentsHasNextPage, issued, uncaught, input,
                 resultSegments, frame >>

\* fetchComments up to its await: page 1 clears the collection
fetchComments(threadId, page) ==
    /\ error' = NULL
    /\ comments' = IF page = 1 THEN NULL ELSE comments
    /\ Issue(Call("fetchComments", threadId, "", page, ""))
    /\ snap' = NoSnap

\* select-thread-<id> / select-thread-ep-<id>, then the effect on selectedThread
selectThread(thread) ==
    /\ ListViewShown
    /\ selectedThread' = Some(thread)
    /\ view' = "thread"
    /\ fetchComments(thread, 1)
    /\ UNCHANGED << currentUser, replyingToCommentId, editingCommentId,
                 isReplyingToThread, isSubmitting, commentSort,
                 commentsHasNextPage, uncaught, input, resultSegments, frame >>

\* sort-new / sort-old, then the effect on commentSort
sortClicked(sortOrder) ==
    /\ ThreadViewShown
    /\ commentSort # sortOrder
    /\ commentSort' = sortOrder
    /\ fetchComments(Get(selectedThread), 1)
    /\ UNCHANGED << currentUser, view, selectedThread, replyingToCommentId,
                 editingCommentId, isReplyingToThread, isSubmitting,
                 commentsHasNextPage, uncaught, input, resultSegments, frame >>

\* load-more-comments
loadMoreComments ==
    /\ ThreadViewShown
    /\ commentsHasNextPage
    /\ fetchComments(Get(selectedThread), 2)
    /\ UNCHANGED << currentUser, view, selectedThread, replyingToCommentId,
                 editingCommentId, isReplyingToThread, isSubmitting,
                 commentSort, commentsHasNextPage, uncaught, input,
                 resultSegments, frame >>

\* fetchComments after its await, the request having succeeded; the backend
\* does not send a comment the client already holds
fetchCommentsOk(c, response) ==
    /\ c.kind = "fetchComments"
    /\ LET newComments == response.comments
           combinedComments == IF c.page > 1
                               THEN OrEmpty(comments) \o newComments
                               ELSE newComments
       IN /\ Size(combinedComments) <= MaxNodes
          /\ c.page > 1 => IdsOf(OrEmpty(comments)) \cap IdsOf(newComments) = {}
          /\ comments' = Some(sortComments(combinedComments, commentSort))
    /\ commentsHasNextPage' = response.hasNextPage
    /\ calls' = Settle(c)
    /\ snap' = NoSnap
    /\ UNCHANGED << currentUser, view, selectedThread, error,
                 replyingToCommentId, editingCommentId, isReplyingToThread,
                 isSubmitting, commentSort, issued, uncaught, input,
                 resultSegments, frame >>

\* fetchComments after its await, the request having failed
fetchCommentsFails(c) ==
    /\ c.kind = "fetchComments"
    /\ error' = Some("AniList API Error")
    /\ calls' = Settle(c)
    /\ snap' = NoSnap
    /\ UNCHANGED << currentUser, view, selectedThread, comments,
                 replyingToCommentId, editingCommentId, isReplyingToThread,
                 isSubmitting, commentSort, commentsHasNextPage, issued,
                 uncaught, input, resultSegments, frame >>

\* back-to-list
backToList ==
    /\ ThreadViewShown
    /\ view' = "list"
    /\ selectedThread' = NULL
    /\ comments' = NULL
    /\ replyingToCommentId' = NULL
    /\ editingCommentId' = NULL
    /\ isSubmitting' = FALSE
    /\ commentsHasNextPage' = FALSE
    /\ snap' = NoSnap
    /\ UNCHANGED << currentUser, error, isReplyingToThread, commentSort, calls,
                 issued, uncaught, input, resultSegments, frame >>

\* -------------------------------------------------------- the like button
\* Fault: no .catch on the promise, the rejection is left unhandled.
toggleLikeRejected_noCatch(unhandled) == TRUE

\* anilistApi.toggleLike: the rejection of this._fetch(...) is taken by
\* .catch, which logs it; the value is whether a rejection is left unhandled
toggleLikeRejected(unhandled) == unhandled

\* handleToggleLike
handleToggleLike(commentId) ==
    /\ comments' = Some(updateCommentInTree(OrEmpty(comments), commentId))
    /\ Issue(PlainCall("toggleLike"))
    /\ snap' = IF snap.op = "like" /\ snap.id = commentId
               THEN Snap("likeAgain", commentId, 0, "", snap.orig)
               ELSE Snap("like", commentId, 0, "", {comments})
    /\ UNCHANGED << currentUser, view, selectedThread, error,
                 replyingToCommentId, editingCommentId, isReplyingToThread,
                 isSubmitting, commentSort, commentsHasNextPage, uncaught,
                 input, resultSegments, frame >>

\* like-comment-<id>
likeClicked ==
    \E c \in WithButtons : handleToggleLike(c.id)

\* the promise of anilistApi.toggleLike settles
toggleLikeSettles(c, ok) ==
    /\ c.kind = "toggleLike"
    /\ calls' = Settle(c)
    /\ uncaught' = IF ok THEN uncaught ELSE toggleLikeRejected(uncaught)
    /\ snap' = IF ok THEN NoSnap ELSE Snap("likeFailed", 0, 0, "", {})
    /\ UNCHANGED << currentUser, view, selectedThread, comments, error,
                 replyingToCommentId, editingCommentId, isReplyingToThread,
                 isSubmitting, commentSort, commentsHasNextPage, issued,
                 input, resultSegments, frame >>

\* ------------------------------------------------------------ submissions
\* Fault: the guard does not look at the busy flag.
submitGuard_noBusy(thread, text, busy) ==
    thread # NULL /\ text # ""

\* if (!threadId || !text || isSubmitting.get()) return;
submitGuard(thread, text, busy) ==
    thread # NULL /\ text # "" /\ ~busy

\* if (isSubmitting.get()) return;
deleteGuard(busy) == ~busy

\* const temporaryId = Date.now(): the wall clock, which may give the same
\* millisecond twice and may be set back
TemporaryIds == FirstNow..(FirstNow + ClockSpan)

\* const newComment: ThreadComment = { id: temporaryId, ... }
newComment(temporaryId, text, me) ==
    ThreadComment(temporaryId, text, 0, FALSE, me, << >>, TRUE)

\* Fault: the record put in place of the temporary node is still marked.
realComment_optimistic(id, text, me) ==
    ThreadComment(id, text, 0, FALSE, me, << >>, TRUE)

\* The record SaveThreadComment answers with (it carries no isOptimistic).
realComment(id, text, me) ==
    ThreadComment(id, text, 0, FALSE, me, << >>, FALSE)

\* if (parentCommentId): an optional number (parentCommentId?: number) is
\* falsy when it is undefined and when it is 0
truthy(parentCommentId) == parentCommentId # NULL /\ Get(parentCommentId) # 0

\* if (parentCommentId) comments.set(addReplyToTree(...)) else comments.set([newComment, ...])
insertReply(currentComments, parentCommentId, reply) ==
    IF truthy(parentCommentId)
    THEN addReplyToTree(currentComments, Get(parentCommentId), reply)
    ELSE << reply >> \o currentComments

\* The parent of a reply as a history record keeps it: its id, 0 for none.
ParentOnRecord(parentCommentId) ==
    IF parentCommentId = NULL THEN 0 ELSE Get(parentCommentId)

\* handlePostReply up to its await
handlePostReply(text, parentCommentId) ==
    IF ~submitGuard(selectedThread, text, isSubmitting)
    THEN /\ snap' = Snap("replyIgnored", 0, ParentOnRecord(parentCommentId), text, {})
         /\ UNCHANGED << currentUser, view, selectedThread, comments, error,
                      replyingToCommentId, editingCommentId,
                      isReplyingToThread, isSubmitting, commentSort,
                      commentsHasNextPage, calls, issued, uncaught, input,
                      resultSegments, frame >>
    ELSE IF currentUser = NULL
    THEN /\ error' = Some("Cannot post reply, user data not loaded.")
         /\ isSubmitting' = FALSE
         /\ snap' = Snap("replyNoUser", 0, ParentOnRecord(parentCommentId), text, {})
         /\ UNCHANGED << currentUser, view, selectedThread, comments,
                      replyingToCommentId, editingCommentId,
                      isReplyingToThread, commentSort, commentsHasNextPage,
                      calls, issued, uncaught, input, resultSegments, frame >>
    ELSE /\ Size(OrEmpty(comments)) < MaxNodes
         /\ \E temporaryId \in TemporaryIds :
              LET reply == newComment(temporaryId, text, Get(currentUser))
              IN /\ comments' = Some(insertReply(OrEmpty(comments), parentCommentId, reply))
                 /\ Issue(Call("saveReply", temporaryId, text, 0, ""))
                 /\ snap' = Snap("reply", temporaryId, ParentOnRecord(parentCommentId), text,
                                  {comments})
         /\ isSubmitting' = TRUE
         /\ error' = NULL
         /\ UNCHANGED << currentUser, view, selectedThread, replyingToCommentId,
                      editingCommentId, isReplyingToThread, commentSort,
                      commentsHasNextPage, uncaught, input, resultSegments,
                      frame >>

\* send-reply-<id>: the reply box under the comment being replied to
sendReply ==
    \E c \in WithButtons, text \in ReplyTexts :
        /\ replyingToCommentId = Some(c.id)
        /\ handlePostReply(text, Some(c.id))

\* send-reply-thread: the box opened by "Post a new comment"
postComment ==
    \E text \in ReplyTexts :
        /\ ThreadViewShown
        /\ isReplyingToThread
        /\ handlePostReply(text, NULL)

\* The collection before the reply that call c made, if that reply is the
\* step on record.
OrigOf(c) == IF snap.op = "reply" /\ snap.id = c.id THEN snap.orig ELSE {}

\* handlePostReply after its await: try and finally
saveReplyOk(c, canonicalId) ==
    /\ c.kind = "saveReply"
    /\ canonicalId \notin IdsOf(OrEmpty(comments))
    /\ comments' = Some(replaceInTree(OrEmpty(comments), c.id,
                                      realComment(canonicalId, c.text, "me")))
    /\ isSubmitting' = FALSE
    /\ replyingToCommentId' = NULL
    /\ isReplyingToThread' = FALSE
    /\ calls' = Settle(c)
    /\ snap' = Snap("replyOk", c.id, canonicalId, c.text, OrigOf(c))
    /\ UNCHANGED << currentUser, view, selectedThread, error, editingCommentId,
                 commentSort, commentsHasNextPage, issued, uncaught, input,
                 resultSegments, frame >>

\* handlePostReply after its await: catch and finally
saveReplyFails(c) ==
    /\ c.kind = "saveReply"
    /\ error' = Some("Failed to send reply.")
    /\ comments' = Some(removeInTree(OrEmpty(comments), c.id))
    /\ isSubmitting' = FALSE
    /\ replyingToCommentId' = NULL
    /\ isReplyingToThread' = FALSE
    /\ calls' = Settle(c)
    /\ snap' = Snap("replyFailed", c.id, 0, c.text, OrigOf(c))
    /\ UNCHANGED << currentUser, view, selectedThread, editingCommentId,
                 commentSort, commentsHasNextPage, issued, uncaught, input,
                 resultSegments, frame >>

\* handleEditComment up to its await
handleEditComment(commentId, newText) ==
    IF ~submitGuard(selectedThread, newText, isSubmitting)
    THEN /\ snap' = Snap("editIgnored", commentId, 0, newText, {})
         /\ UNCHANGED << currentUser, view, selectedThread, comments, error,
                      replyingToCommentId, editingCommentId,
                      isReplyingToThread, isSubmitting, commentSort,
                      commentsHasNextPage, calls, issued, uncaught, input,
                      resultSegments, frame >>
    ELSE /\ LET originalText == capturedOriginalText(OrEmpty(comments), commentId, "")
            IN Issue(Call("saveEdit", commentId, originalText, 0,
                                   TextShown(OrEmpty(comments), commentId)))
         /\ comments' = Some(findAndUpdateInTree(OrEmpty(comments), commentId, newText))
         /\ editingCommentId' = NULL
         /\ isSubmitting' = TRUE
         /\ error' = NULL
         /\ snap' = Snap("edit", commentId, 0, newText, {})
         /\ UNCHANGED << currentUser, view, selectedThread, replyingToCommentId,
                      isReplyingToThread, commentSort, commentsHasNextPage,
                      uncaught, input, resultSegments, frame >>

\* save-edit-<id>: the edit box shown in place of the comment being edited
saveEdit ==
    \E c \in Shown, newText \in EditTexts :
        /\ editingCommentId = Some(c.id)
        /\ handleEditComment(c.id, newText)

\* handleEditComment after its await: try and finally
saveEditOk(c) ==
    /\ c.kind = "saveEdit"
    /\ isSubmitting' = FALSE
    /\ calls' = Settle(c)
    /\ snap' = Snap("editOk", c.id, 0, c.shownText, {})
    /\ UNCHANGED << currentUser, view, selectedThread, comments, error,
                 replyingToCommentId, editingCommentId, isReplyingToThread,
                 commentSort, commentsHasNextPage, issued, uncaught, input,
                 resultSegments, frame >>

\* handleEditComment after its await: catch and finally
saveEditFails(c) ==
    /\ c.kind = "saveEdit"
    /\ error' = Some("Failed to edit comment.")
    /\ comments' = Some(rollbackInTree(OrEmpty(comments), c.id, c.text))
    /\ isSubmitting' = FALSE
    /\ calls' = Settle(c)
    /\ snap' = Snap("editFailed", c.id, 0, c.shownText, {})
    /\ UNCHANGED << currentUser, view, selectedThread, replyingToCommentId,
                 editingCommentId, isReplyingToThread, commentSort,
                 commentsHasNextPage, issued, uncaught, input,
                 resultSegments, frame >>

\* handleDeleteComment up to its await
handleDeleteComment(commentId) ==
    IF ~deleteGuard(isSubmitting)
    THEN /\ snap' = Snap("deleteIgnored", commentId, 0, "", {})
         /\ UNCHANGED << currentUser, view, selectedThread, comments, error,
                      replyingToCommentId, editingCommentId,
                      isReplyingToThread, isSubmitting, commentSort,
                      commentsHasNextPage, calls, issued, uncaught, input,
                      resultSegments, frame >>
    ELSE /\ Issue(PlainCall("deleteComment"))
         /\ comments' = Some(removeCommentFromTree(OrEmpty(comments), commentId))
         /\ isSubmitting' = TRUE
         /\ error' = NULL
         /\ snap' = Snap("delete", commentId, Size(OrEmpty(comments)), "", {})
         /\ UNCHANGED << currentUser, view, selectedThread, replyingToCommentId,
                      editingCommentId, isReplyingToThread, commentSort,
                      commentsHasNextPage, uncaught, input, resultSegments,
                      frame >>

\* delete-comment-<id>, offered on the viewer's own comments, and
\* confirm-action in the dialog it opens: actionConfirm.onConfirm()
deleteConfirmed ==
    \E c \in WithButtons :
        /\ currentUser # NULL /\ c.user = Get(currentUser)
        /\ handleDeleteComment(c.id)

\* handleDeleteComment after its await; deleted = false is thrown and caught
deleteCommentSettles(c, outcome) ==
    /\ c.kind = "deleteComment"
    /\ error' = IF outcome = "deleted"
                THEN error
                ELSE Some("Failed to delete comment. Please refresh.")
    /\ isSubmitting' = FALSE
    /\ calls' = Settle(c)
    /\ snap' = LET onRecord == snap.op = "delete"
               IN Snap(IF outcome = "deleted" THEN "deleteOk" ELSE "deleteFailed",
                       IF onRecord THEN snap.id ELSE 0,
                       IF onRecord THEN snap.other ELSE 0, "", {})
    /\ UNCHANGED << currentUser, view, selectedThread, comments,
                 replyingToCommentId, editingCommentId, isReplyingToThread,
                 commentSort, commentsHasNextPage, issued, uncaught, input,
                 resultSegments, frame >>

\* ------------------------------------------------------ the other buttons
\* reply-to-comment-<id>
replyClicked ==
    \E c \in WithButtons :
        /\ replyingToCommentId' = Some(c.id)
        /\ editingCommentId' = NULL
        /\ isSubmitting' = FALSE
        /\ snap' = NoSnap
        /\ UNCHANGED << currentUser, view, selectedThread, comments, error,
                     isReplyingToThread, commentSort, commentsHasNextPage,
                     calls, issued, uncaught, input, resultSegments, frame >>

\* edit-comment-<id>, offered on the viewer's own comments
editClicked ==
    \E c \in WithButtons :
        /\ currentUser # NULL /\ c.user = Get(currentUser)
        /\ editingCommentId' = Some(c.id)
        /\ replyingToCommentId' = NULL
        /\ isSubmitting' = FALSE
        /\ snap' = NoSnap
        /\ UNCHANGED << currentUser, view, selectedThread, comments, error,
                     isReplyingToThread, commentSort, commentsHasNextPage,
                     calls, issued, uncaught, input, resultSegments, frame >>

\* reply-to-thread ("Post a new comment")
replyToThreadClicked ==
    /\ ThreadViewShown
    /\ isReplyingToThread' = ~isReplyingToThread
    /\ replyingToCommentId' = NULL
    /\ editingCommentId' = NULL
    /\ isSubmitting' = FALSE
    /\ snap' = NoSnap
    /\ UNCHANGED << currentUser, view, selectedThread, comments, error,
                 commentSort, commentsHasNextPage, calls, issued, uncaught,
                 input, resultSegments, frame >>

\* cancel-reply
cancelReply ==
    /\ ThreadViewShown
    /\ isReplyingToThread \/ \E c \in WithButtons : replyingToCommentId = Some(c.id)
    /\ replyingToCommentId' = NULL
    /\ isReplyingToThread' = FALSE
    /\ snap' = NoSnap
    /\ UNCHANGED << currentUser, view, selectedThread, comments, error,
                 editingCommentId, isSubmitting, commentSort,
                 commentsHasNextPage, calls, issued, uncaught, input,
                 resultSegments, frame >>

\* cancel-edit
cancelEdit ==
    /\ \E c \in Shown : editingCommentId = Some(c.id)
    /\ editingCommentId' = NULL
    /\ snap' = NoSnap
    /\ UNCHANGED << currentUser, view, selectedThread, comments, error,
                 replyingToCommentId, isReplyingToThread, isSubmitting,
                 commentSort, commentsHasNextPage, calls, issued, uncaught,
                 input, resultSegments, frame >>

\* ------------------------------------------------------------ the machine
UserAction ==
    \/ onNavigate
    \/ trayOnOpen
    \/ \E thread \in Threads : selectThread(thread)
    \/ \E sortOrder \in {"ID", "ID_DESC"} : sortClicked(sortOrder)
    \/ loadMoreComments
    \/ backToList
    \/ likeClicked
    \/ replyClicked
    \/ editClicked
    \/ replyToThreadClicked
    \/ cancelReply
    \/ cancelEdit
    \/ sendReply
    \/ postComment
    \/ saveEdit
    \/ deleteConfirmed

RemoteSettles ==
    \/ \E c \in Pending("fetchViewer"), ok \in BOOLEAN : fetchViewerSettles(c, ok)
    \/ \E c \in Pending("fetchComments") :
          \/ \E response \in (IF c.page > 1 THEN NextPages ELSE FirstPages) :
                fetchCommentsOk(c, response)
          \/ fetchCommentsFails(c)
    \/ \E c \in Pending("toggleLike"), ok \in BOOLEAN : toggleLikeSettles(c, ok)
    \/ \E c \in Pending("saveReply") :
          \/ \E canonicalId \in CanonIds : saveReplyOk(c, canonicalId)
          \/ saveReplyFails(c)
    \/ \E c \in Pending("saveEdit") : saveEditOk(c) \/ saveEditFails(c)
    \/ \E c \in Pending("deleteComment"), outcome \in {"deleted", "notDeleted", "error"} :
          deleteCommentSettles(c, outcome)

Next == UserAction \/ RemoteSettles

Spec == Init /\ [][Next]_vars

\* ------------------------------------------------------------- properties
\* Number of submissions (reply, edit, delete) whose remote call is unresolved.
SubmissionsInFlight ==
    LET pending == {c \in BagToSet(calls) : c.kind \in Submissions}
    IN BagCardinality([c \in pending |-> CopiesIn(c, calls)])

\* The handler invocations of the three submissions, whatever their outcome.
SubmissionOps ==
    {"reply", "replyIgnored", "replyNoUser", "edit", "editIgnored", "delete", "deleteIgnored"}

\* C1: at most one submission (reply, edit or delete) is in flight at any
\* time, whatever the user clicks and whenever the remote calls resolve.
C1_AtMostOneSubmissionInFlight == SubmissionsInFlight <= 1

\* C2: when the remote call of an accepted reply fails, and the failure is
\* handled right after the reply was made, the collection reads as it did just
\* before the reply and the error is set.
C2_FailedReplyRestoresTree ==
    snap.op = "replyFailed" /\ snap.orig # {}
        => /\ Read(comments) = Read(Get(snap.orig))
           /\ error = Some("Failed to send reply.")

\* C3: an accepted reply to the comment with id p gives that comment, in the
\* same step, exactly one new child behind the children it has, with the
\* text given, optimistic, not liked, without likes and without children; no
\* other node changes.
C3_ReplyAppendsOneChild ==
    [][ LET before == Read(comments)
            after == Read(comments')
            p == snap'.other
        IN snap'.op = "reply" /\ p # 0 /\ IsOnly(before, p)
              => LET i == Only(before, p)
                     last == SubtreeEnd(before, i)
                     child == [id |-> snap'.id, comment |-> snap'.text, likeCount |-> 0,
                               isLiked |-> FALSE, user |-> Get(currentUser),
                               isOptimistic |-> TRUE, depth |-> before[i].depth + 1]
                 IN after = SubSeq(before, 1, last) \o << child >>
                            \o SubSeq(before, last + 1, Len(before)) ]_vars

C3_Witness ==
    /\ snap.op = "reply"
    /\ snap.other # 0
    /\ LET flat == Read(comments)
       IN \E i \in 1..Len(flat) :
             /\ flat[i].id = snap.id /\ flat[i].isOptimistic /\ flat[i].depth = 2
             /\ i > 1 /\ flat[i - 1].depth = 2 /\ flat[i - 1].id # snap.id

\* C4: when the remote call of a reply succeeds, the temporary node is
\* replaced where it stands by the persisted node (canonical id, not
\* optimistic, no children) and every other node is unchanged.
C4_ConfirmReplacesInPlace ==
    [][ LET before == Read(comments)
            after == Read(comments')
        IN snap'.op = "replyOk" /\ IsOnly(before, snap'.id)
              => LET i == Only(before, snap'.id)
                 IN after = [before EXCEPT ![i] =
                                [id |-> snap'.other, comment |-> snap'.text, likeCount |-> 0,
                                 isLiked |-> FALSE, user |-> before[i].user,
                                 isOptimistic |-> FALSE, depth |-> before[i].depth]] ]_vars

\* C5: liking the same comment twice in a row leaves the collection exactly
\* as it was before the first of the two.
C5_LikeTwiceRestores ==
    snap.op = "likeAgain" => comments = Get(snap.orig)

C5_Witness ==
    /\ snap.op = "likeAgain"
    /\ LET flat == Read(comments)
       IN \E i \in At(flat, snap.id) : flat[i].likeCount = 3 /\ ~flat[i].isLiked

\* C6: a like flips isLiked and moves likeCount by one (up when it was not
\* liked, down when it was) on the comment with the id, at any depth, in the
\* same step; nothing else in the collection changes, a remote call of its
\* own is made, and the busy flag neither blocks it nor is touched by it.
C6_LikeFlipsTarget ==
    [][ LET before == Read(comments)
            after == Read(comments')
        IN snap'.op \in {"like", "likeAgain"} /\ IsOnly(before, snap'.id)
              => LET i == Only(before, snap'.id)
                 IN /\ after = [before EXCEPT ![i] =
                                   [@ EXCEPT !.isLiked = ~before[i].isLiked,
                                             !.likeCount = IF before[i].isLiked
                                                           THEN before[i].likeCount - 1
                                                           ELSE before[i].likeCount + 1]]
                    /\ calls' = calls (+) SetToBag({PlainCall("toggleLike")})
                    /\ isSubmitting' = isSubmitting ]_vars

C6_Witness ==
    /\ snap.op = "like"
    /\ isSubmitting
    /\ LET flat == Read(comments)
       IN \E i \in At(flat, snap.id) : flat[i].depth = 2 /\ flat[i].isLiked

\* C7: an accepted edit sets the text of the comment with the id in the same
\* step; when its remote call fails the text goes back to what the comment
\* displayed just before the edit and the error is set; when it succeeds the
\* text stays; no other node and no other field changes in any of the three.
C7_EditAppliesAndRollsBack ==
    [][ LET before == Read(comments)
            after == Read(comments')
            id == snap'.id
        IN /\ snap'.op = "edit" /\ IsOnly(before, id)
              => after = [before EXCEPT ![Only(before, id)].comment = snap'.text]
           /\ snap'.op = "editFailed"
              => /\ error' = Some("Failed to edit comment.")
                 /\ IsOnly(before, id) /\ snap'.text # ""
                       => after = [before EXCEPT ![Only(before, id)].comment = snap'.text]
                 /\ At(before, id) = {} => after = before
           /\ snap'.op = "editOk" => comments' = comments ]_vars

C7_Witness ==
    /\ snap.op = "editFailed"
    /\ error = Some("Failed to edit comment.")
    /\ LET flat == Read(comments)
       IN \E i \in At(flat, snap.id) : flat[i].comment = snap.text /\ snap.text = "a"

\* C8: an accepted delete removes the comment with the id and all of its
\* subtree in the same step, at any depth, and leaves the other nodes and
\* their order as they were; when the remote call fails or answers
\* deleted = false nothing is put back and the error is the refresh message.
C8_DeleteExcisesSubtree ==
    [][ LET before == Read(comments)
            after == Read(comments')
            id == snap'.id
        IN /\ snap'.op = "delete" /\ IsOnly(before, id)
              => LET i == Only(before, id)
                 IN after = SubSeq(before, 1, i - 1)
                            \o SubSeq(before, SubtreeEnd(before, i) + 1, Len(before))
           /\ snap'.op = "deleteFailed"
              => /\ comments' = comments
                 /\ error' = Some("Failed to delete comment. Please refresh.") ]_vars

C8_Witness ==
    /\ snap.op = "deleteFailed"
    /\ snap.id # 0
    /\ snap.other - Size(OrEmpty(comments)) >= 2
    /\ snap.id \notin IdsOf(OrEmpty(comments))
    /\ error = Some("Failed to delete comment. Please refresh.")

\* C9: a reply, an edit or a delete invoked while the busy flag is set
\* changes nothing: not the collection, the error, the busy flag, the reply
\* and edit boxes, and no remote call is made.
C9_BusySubmissionIgnored ==
    [][ isSubmitting /\ snap'.op \in SubmissionOps
            => UNCHANGED << comments, error, isSubmitting, replyingToCommentId,
                            editingCommentId, isReplyingToThread, calls >> ]_vars

C9_Witness ==
    /\ snap.op = "editIgnored"
    /\ snap.text # ""
    /\ isSubmitting
    /\ SubmissionsInFlight = 1

\* C10: when the remote call of a like fails the flipped like stays, the
\* error is not set and no rejection is left unhandled.
C10_FailedLikeIsSilent ==
    [][ snap'.op = "likeFailed"
            => /\ UNCHANGED << comments, error >>
               /\ ~uncaught' ]_vars

C10_Witness ==
    /\ snap.op = "likeFailed"
    /\ error = NULL
    /\ \E c \in RenderedComments(OrEmpty(comments), NULL) : c.isLiked /\ c.likeCount = 4

\* The entries of a reading other than those carrying one of the ids.
Others(flat, ids) ==
    LET other(e) == e.id \notin ids
    IN SelectSeq(flat, other)

\* C11: the confirmation or rollback of a reply or an edit, whenever it
\* arrives, changes only the node it is about: every node carrying another
\* id (among them the nodes liked, added or edited in the meantime) reads
\* after it as it did before, in the same order.
C11_SettleChangesOnlyTarget ==
    [][ LET before == Read(comments)
            after == Read(comments')
        IN /\ snap'.op = "replyOk"
              => Others(after, {snap'.other}) = Others(before, {snap'.id})
           /\ snap'.op = "replyFailed"
              => after = Others(before, {snap'.id})
           /\ snap'.op \in {"editOk", "editFailed"}
              => Others(after, {snap'.id}) = Others(before, {snap'.id}) ]_vars

\* C12: no two nodes of the collection carry the same id; in particular the
\* placeholder id of a reply differs from the id of every node already there.
C12_IdsAreUnique ==
    Cardinality(IdsOf(OrEmpty(comments))) = Size(OrEmpty(comments))

\* The pairs (a, b) of ids such that a node carrying a stands before a node
\* carrying b in the same list of siblings, at any depth.
RECURSIVE SiblingPairs(_)
SiblingPairs(list) ==
    LET places == {p \in (DOMAIN list) \X (DOMAIN list) : p[1] < p[2]}
        ordered == {<< list[p[1]].id, list[p[2]].id >> : p \in places}
        below(i) == SiblingPairs(list[i].childComments)
    IN ordered \cup UNION {below(i) : i \in DOMAIN list}

\* C19: no step that leaves two sibling nodes in the collection (a like, a
\* reply, a confirmation, a rollback, an edit, a delete, the arrival of
\* further comments) exchanges their order.
C19_SiblingOrderKept ==
    [][ \A pair \in SiblingPairs(OrEmpty(comments)) :
            pair[1] # pair[2]
                => << pair[2], pair[1] >> \notin SiblingPairs(OrEmpty(comments')) ]_vars

\* ------------------------------------------- the insertion of a reply alone
\* The insertion step of handlePostReply as a function of its inputs: the
\* collection held, the optional parent id and the new node.  The parent id
\* is a number (parentCommentId?: number), 0 included.
SampleIds == {0, 1, 2}

Leaf(id) == Persisted(id, "other", 0, FALSE, << >>)
Node(id, children) == Persisted(id, "other", 0, FALSE, children)

\* The collections of at most three nodes with distinct ids of SampleIds.
SampleTrees ==
    LET two == {p \in SampleIds \X SampleIds : p[1] # p[2]}
        three == {p \in SampleIds \X SampleIds \X SampleIds :
                      p[1] # p[2] /\ p[1] # p[3] /\ p[2] # p[3]}
    IN {<< >>}
       \cup {<< Leaf(i) >> : i \in SampleIds}
       \cup {<< Leaf(p[1]), Leaf(p[2]) >> : p \in two}
       \cup {<< Node(p[1], << Leaf(p[2]) >>) >> : p \in two}
       \cup {<< Leaf(p[1]), Leaf(p[2]), Leaf(p[3]) >> : p \in three}
       \cup {<< Node(p[1], << Leaf(p[2]) >>), Leaf(p[3]) >> : p \in three}
       \cup {<< Leaf(p[1]), Node(p[2], << Leaf(p[3]) >>) >> : p \in three}
       \cup {<< Node(p[1], << Leaf(p[2]), Leaf(p[3]) >>) >> : p \in three}
       \cup {<< Node(p[1], << Node(p[2], << Leaf(p[3]) >>) >>) >> : p \in three}

\* The values of the parameter parentCommentId: undefined or a number.
ParentArgs == {NULL} \cup {Some(id) : id \in SampleIds}

\* A thread is open with some collection loaded and the viewer known.
InsertInit ==
    /\ currentUser = Some("me")
    /\ view = "thread"
    /\ selectedThread \in {Some(thread) : thread \in Threads}
    /\ comments \in {Some(tree) : tree \in SampleTrees}
    /\ error = NULL
    /\ replyingToCommentId = NULL
    /\ editingCommentId = NULL
    /\ isReplyingToThread = FALSE
    /\ isSubmitting = FALSE
    /\ commentSort = "ID_DESC"
    /\ commentsHasNextPage = FALSE
    /\ calls = EmptyBag
    /\ issued = 0
    /\ uncaught = FALSE
    /\ snap = NoSnap
    /\ input = ""
    /\ resultSegments = NULL
    /\ frame = NoFrame

\* handlePostReply from const temporaryId = Date.now() to the insertion
insertsReply ==
    \E parentCommentId \in ParentArgs, temporaryId \in TemporaryIds :
        /\ snap = NoSnap
        /\ LET reply == newComment(temporaryId, "hi", Get(currentUser))
           IN comments' = Some(insertReply(OrEmpty(comments), parentCommentId, reply))
        /\ snap' = Snap(IF parentCommentId = NULL THEN "insertedAbsent" ELSE "insertedGiven",
                        temporaryId, ParentOnRecord(parentCommentId), "hi", {comments})
        /\ UNCHANGED << currentUser, view, selectedThread, error,
                     replyingToCommentId, editingCommentId,
                     isReplyingToThread, isSubmitting, commentSort,
                     commentsHasNextPage, calls, issued, uncaught, input,
                     resultSegments, frame >>

InsertNext == insertsReply

InsertSpec == InsertInit /\ [][InsertNext]_vars

\* C20: with a parent id given, whatever its value, the new node becomes the
\* last child of the node carrying that id; with no parent id it becomes the
\* first top-level node.  Nothing else changes.
C20_ParentGivenAppendsChild ==
    [][ LET before == Read(comments)
            after == Read(comments')
            p == snap'.other
            child(depth) == [id |-> snap'.id, comment |-> snap'.text, likeCount |-> 0,
                             isLiked |-> FALSE, user |-> Get(currentUser),
                             isOptimistic |-> TRUE, depth |-> depth]
        IN /\ snap'.op = "insertedGiven" /\ IsOnly(before, p)
              => LET i == Only(before, p)
                     last == SubtreeEnd(before, i)
                 IN after = SubSeq(before, 1, last) \o << child(before[i].depth + 1) >>
                            \o SubSeq(before, last + 1, Len(before))
           /\ snap'.op = "insertedAbsent"
              => after = << child(1) >> \o before ]_vars

\* =========================================================== markup parser
\* A text is a string; a character is a string of length one.
\* ------------------------------------------------------------------ texts
\* s.slice(0, n) and s.slice(n)
Take(s, n) == SubSeq(s, 1, n)
Drop(s, n) == SubSeq(s, n + 1, Len(s))

StartsWith(s, lit) == Len(s) >= Len(lit) /\ Take(s, Len(lit)) = lit
EndsWith(s, lit) == Len(s) >= Len(lit) /\ Drop(s, Len(s) - Len(lit)) = lit

\* The backtick, and the fence of a code block
Tick == Head("`'")
Fence == Tick \o Tick \o Tick

Range(list) == {list[i] : i \in DOMAIN list}

Least(S) == CHOOSE p \in S : \A q \in S : p <= q

\* The first position at or after from (counted from 1) where lit stands
\* in s; 0 when there is none.
IndexOf(s, lit, from) ==
    LET found == {p \in from..(Len(s) - Len(lit) + 1) : SubSeq(s, p, p + Len(lit) - 1) = lit}
    IN IF found = {} THEN 0 ELSE Least(found)

\* Character classes of the regular expressions.
Digits == {"0", "1", "2", "3", "4", "5", "6", "7", "8", "9"}
LowerCase == {"a", "b", "c", "d", "e", "f", "g", "h", "i", "j", "k", "l", "m",
              "n", "o", "p", "q", "r", "s", "t", "u", "v", "w", "x", "y", "z"}
UpperCase == {"A", "B", "C", "D", "E", "F", "G", "H", "I", "J", "K", "L", "M",
              "N", "O", "P", "Q", "R", "S", "T", "U", "V", "W", "X", "Y", "Z"}
\* \w
WordChars == LowerCase \cup UpperCase \cup Digits \cup {"_"}
\* \s, as far as a text of this model can hold it
Whitespace == {" ", "\t", "\n", "\r", "\f"}
\* The characters the dot does not match.
LineTerminators == {"\n", "\r"}

\* The flag i: letters are compared without regard to case.
ToLower ==
    [c \in UpperCase |->
        CASE c = "A" -> "a" [] c = "B" -> "b" [] c = "C" -> "c" [] c = "D" -> "d"
          [] c = "E" -> "e" [] c = "F" -> "f" [] c = "G" -> "g" [] c = "H" -> "h"
          [] c = "I" -> "i" [] c = "J" -> "j" [] c = "K" -> "k" [] c = "L" -> "l"
          [] c = "M" -> "m" [] c = "N" -> "n" [] c = "O" -> "o" [] c = "P" -> "p"
          [] c = "Q" -> "q" [] c = "R" -> "r" [] c = "S" -> "s" [] c = "T" -> "t"
          [] c = "U" -> "u" [] c = "V" -> "v" [] c = "W" -> "w" [] c = "X" -> "x"
          [] c = "Y" -> "y" [] c = "Z" -> "z"]

RECURSIVE Fold(_)
Fold(s) ==
    IF s = "" THEN ""
    ELSE (IF Head(s) \in UpperCase THEN ToLower[Head(s)] ELSE Head(s)) \o Fold(Tail(s))

\* The number of characters at the head of s that are in (Span) or are not
\* in (SpanNot) a class: a greedy X* for a class X.
RECURSIVE Span(_, _)
Span(s, class) ==
    IF s = "" \/ Head(s) \notin class THEN 0 ELSE 1 + Span(Tail(s), class)

RECURSIVE SpanNot(_, _)
SpanNot(s, excluded) ==
    IF s = "" \/ Head(s) \in excluded THEN 0 ELSE 1 + SpanNot(Tail(s), excluded)

\* A regular expression is matched from left to right through positions: a
\* position is the place (counted from 1) of the next character to read, and
\* 0 stands for "no match".  Each step below takes the position reached so
\* far and gives the position after its piece of the expression.
\* A literal; with the flag i when fold is TRUE.
Lit(s, p, lit, fold) ==
    LET here == SubSeq(s, p, p + Len(lit) - 1)
    IN IF /\ p # 0
          /\ p + Len(lit) - 1 <= Len(s)
          /\ IF fold THEN Fold(here) = Fold(lit) ELSE here = lit
       THEN p + Len(lit) ELSE 0

\* X+ and X* for a class X
Plus(s, p, class) ==
    LET n == Span(Drop(s, p - 1), class)
    IN IF p # 0 /\ n > 0 THEN p + n ELSE 0
Star(s, p, class) ==
    IF p # 0 THEN p + Span(Drop(s, p - 1), class) ELSE 0

\* [^X]+ and [^X]* for a class X
PlusNot(s, p, excluded) ==
    LET n == SpanNot(Drop(s, p - 1), excluded)
    IN IF p # 0 /\ n > 0 THEN p + n ELSE 0
StarNot(s, p, excluded) ==
    IF p # 0 THEN p + SpanNot(Drop(s, p - 1), excluded) ELSE 0

\* [\s\S]*? followed by a literal: the position of the first place at or
\* after p where the literal stands.
Until(s, p, lit, fold) ==
    IF p = 0 THEN 0
    ELSE IF fold THEN IndexOf(Fold(s), Fold(lit), p) ELSE IndexOf(s, lit, p)

\* What String.prototype.match answers: whether the expression matched, the
\* length of match[0], and the groups the rule reads.
Match(len, g1, g2) == [ok |-> TRUE, len |-> len, g1 |-> g1, g2 |-> g2]
NoMatch == [ok |-> FALSE, len |-> 0, g1 |-> "", g2 |-> ""]

\* A match that ends before position end, with groups s[a..b) and s[c..d).
Matched(s, end, a, b, c, d) ==
    IF end = 0 THEN NoMatch
    ELSE Match(end - 1, SubSeq(s, a, b - 1), SubSeq(s, c, d - 1))

\* s.replace(/lit/g, by) for a literal
RECURSIVE ReplaceAll(_, _, _)
ReplaceAll(s, lit, by) ==
    IF s = "" THEN ""
    ELSE IF StartsWith(s, lit) THEN by \o ReplaceAll(Drop(s, Len(lit)), lit, by)
    ELSE Head(s) \o ReplaceAll(Tail(s), lit, by)

\* ------------------------------------------------------- entity decoding
\* The largest Unicode code point, 0x10FFFF
LargestCodePoint == 1114111
\* The largest code point held in one UTF-16 unit, 0xFFFF
LargestUnitCodePoint == 65535

DigitValue(c) ==
    CASE c = "0" -> 0 [] c = "1" -> 1 [] c = "2" -> 2 [] c = "3" -> 3 [] c = "4" -> 4
      [] c = "5" -> 5 [] c = "6" -> 6 [] c = "7" -> 7 [] c = "8" -> 8 [] c = "9" -> 9

\* parseInt(dec, 10) of a run of digits.  Every value above the largest code
\* point is treated alike by its one reader, so the sum stops growing there.
RECURSIVE parseIntFrom(_, _)
parseIntFrom(dec, sofar) ==
    IF dec = "" THEN sofar
    ELSE LET next == 10 * sofar + DigitValue(Head(dec))
         IN parseIntFrom(Tail(dec), IF next > LargestCodePoint THEN LargestCodePoint + 1 ELSE next)

parseInt(dec) == parseIntFrom(dec, 0)

\* The characters a text of this model is written with, by code point.
CodePoints ==
    (10 :> "\n") @@ (32 :> " ") @@ (33 :> "!") @@ (35 :> "#") @@ (38 :> "&")
    @@ (42 :> "*") @@ (59 :> ";") @@ (60 :> "<") @@ (62 :> ">") @@ (64 :> "@")
    @@ (65 :> "A") @@ (91 :> "[") @@ (96 :> Tick) @@ (97 :> "a") @@ (126 :> "~")

\* String.fromCodePoint of a code point in range.  A code point this model
\* has no character for is written "?", once when it takes one UTF-16 unit
\* and twice when it takes a surrogate pair.
fromCodePoint(codePoint) ==
    IF codePoint \in DOMAIN CodePoints THEN CodePoints[codePoint]
    ELSE IF codePoint <= LargestUnitCodePoint THEN "?"
    ELSE "??"

\* /&#(\d+);/ tried at the head of s
NumericReference(s) ==
    LET p1 == Lit(s, 1, "&#", FALSE)
        p2 == Plus(s, p1, Digits)
        p3 == Lit(s, p2, ";", FALSE)
    IN Matched(s, p3, p1, p2, 1, 1)

\* String.fromCodePoint raises a RangeError for a number that is no code point.
RECURSIVE decodeThrows(_)
decodeThrows(text) ==
    IF text = "" THEN FALSE
    ELSE LET m == NumericReference(text)
         IN IF m.ok
            THEN parseInt(m.g1) > LargestCodePoint \/ decodeThrows(Drop(text, m.len))
            ELSE decodeThrows(Tail(text))

\* text.replace(/&#(\d+);/g, (match, dec) => String.fromCodePoint(parseInt(dec, 10)))
RECURSIVE decodeNumeric(_)
decodeNumeric(text) ==
    IF text = "" THEN ""
    ELSE LET m == NumericReference(text)
         IN IF m.ok
            THEN fromCodePoint(parseInt(m.g1)) \o decodeNumeric(Drop(text, m.len))
            ELSE Head(text) \o decodeNumeric(Tail(text))

\* The three replacements that follow put "&" for "&", "<" for "<" and ">"
\* for ">".
decodeHtmlEntities(text) ==
    IF text = "" THEN ""
    ELSE ReplaceAll(ReplaceAll(ReplaceAll(decodeNumeric(text), "&", "&"), "<", "<"), ">", ">")

\* -------------------------------------------------------------- segments
\* A CommentSegment.  Its content is a string (content, nested FALSE) or a
\* list of segments (children, nested TRUE); url, level and username are ""
\* or 0 on a segment that has none.
Seg(type, content, nested, children, url, level, username) ==
    [type |-> type, content |-> content, nested |-> nested, children |-> children,
     url |-> url, level |-> level, username |-> username]

\* { type, content: <string> } and { type, content: <segments> }
Holding(type, content) == Seg(type, content, FALSE, << >>, "", 0, "")
Containing(type, children) == Seg(type, "", TRUE, children, "", 0, "")

Text(content) == Holding("text", content)
Br == Holding("br", "")

\* ---------------------------------------------------------- inline rules
Quote == {"\""}
Hyphen == {"-"}

\* /^@([\w-]+)/
userLinkRule(t) ==
    LET p1 == Lit(t, 1, "@", FALSE)
        p2 == Plus(t, p1, WordChars \cup Hyphen)
    IN Matched(t, p2, p1, p2, 1, 1)

\* <a\s+href="([^"]+)"[^>]*> read from position 1: the positions after the
\* opening quote, of the closing quote, and after the tag
AnchorOpen(t) ==
    LET p1 == Lit(t, Plus(t, Lit(t, 1, "<a", TRUE), Whitespace), "href=\"", TRUE)
        p2 == PlusNot(t, p1, Quote)
        p3 == Lit(t, StarNot(t, Lit(t, p2, "\"", FALSE), {">"}), ">", FALSE)
    IN [from |-> p1, to |-> p2, end |-> p3]

\* <img\s+src="([^"]+)"[^>]*> read from position p
ImgTag(t, p) ==
    LET p1 == Lit(t, Plus(t, Lit(t, p, "<img", TRUE), Whitespace), "src=\"", TRUE)
        p2 == PlusNot(t, p1, Quote)
        p3 == Lit(t, StarNot(t, Lit(t, p2, "\"", FALSE), {">"}), ">", FALSE)
    IN [from |-> p1, to |-> p2, end |-> p3]

\* /^<a\s+href="([^"]+)"[^>]*>\s*<img\s+src="([^"]+)"[^>]*>\s*<\/a>/i
anchoredImageRule(t) ==
    LET a == AnchorOpen(t)
        img == ImgTag(t, Star(t, a.end, Whitespace))
        end == Lit(t, Star(t, img.end, Whitespace), "</a>", TRUE)
    IN Matched(t, end, a.from, a.to, img.from, img.to)

\* /^<img\s+src="([^"]+)"[^>]*>/i
imageTagRule(t) ==
    LET img == ImgTag(t, 1)
    IN Matched(t, img.end, img.from, img.to, 1, 1)

\* /^<b>([\s\S]*?)<\/b>/i
htmlBoldRule(t) ==
    LET p1 == Lit(t, 1, "<b>", TRUE)
        p2 == Until(t, p1, "</b>", TRUE)
    IN Matched(t, Lit(t, p2, "</b>", TRUE), p1, p2, 1, 1)

\* /^<a\s+href="([^"]+)"[^>]*>([\s\S]*?)<\/a>/i
htmlLinkRule(t) ==
    LET a == AnchorOpen(t)
        p2 == Until(t, a.end, "</a>", TRUE)
    IN Matched(t, Lit(t, p2, "</a>", TRUE), a.from, a.to, a.end, p2)

\* /^img(\d*)\((.*?)\)/ : the dot stops at a line terminator
imageRule(t) ==
    LET p1 == Lit(t, Star(t, Lit(t, 1, "img", FALSE), Digits), "(", FALSE)
        p2 == Until(t, p1, ")", FALSE)
        p3 == IF p2 # 0 /\ SpanNot(Drop(t, p1 - 1), LineTerminators) >= p2 - p1
              THEN p2 + 1 ELSE 0
    IN Matched(t, p3, 1, 1, p1, p2)

\* /^name\(([^)]+)\)/ for youtube and video
EmbedRule(t, name) ==
    LET p1 == Lit(t, 1, name \o "(", FALSE)
        p2 == PlusNot(t, p1, {")"})
    IN Matched(t, Lit(t, p2, ")", FALSE), p1, p2, 1, 1)

youtubeRule(t) == EmbedRule(t, "youtube")
videoRule(t) == EmbedRule(t, "video")

\* /^\[([^\]]+)\]\(([^)]+)\)/
linkRule(t) ==
    LET p1 == Lit(t, 1, "[", FALSE)
        p2 == PlusNot(t, p1, {"]"})
        p3 == Lit(t, p2, "](", FALSE)
        p4 == PlusNot(t, p3, {")"})
    IN Matched(t, Lit(t, p4, ")", FALSE), p1, p2, p3, p4)

\* /^open([\s\S]+?)close/ : the content is one character or more and ends at
\* the first place after it where the closing mark stands
Delimited(t, open, close) ==
    LET p1 == Lit(t, 1, open, FALSE)
        p2 == IF p1 = 0 THEN 0 ELSE Until(t, p1 + 1, close, FALSE)
    IN Matched(t, Lit(t, p2, close, FALSE), p1, p2, 1, 1)

\* the first alternative that matches
Either(first, second) == IF first.ok THEN first ELSE second

\* /^\*\*([\s\S]+?)\*\*|^\_\_([\s\S]+?)\_\_/ read as m[1] || m[2]
boldRule(t) == Either(Delimited(t, "**", "**"), Delimited(t, "__", "__"))
\* /^\*([\s\S]+?)\*|^\_([\s\S]+?)\_/
italicRule(t) == Either(Delimited(t, "*", "*"), Delimited(t, "_", "_"))
\* /^~~([\s\S]+?)~~/
strikeRule(t) == Delimited(t, "~~", "~~")
\* /^!~([\s\S]+?)!~/
bangSpoilerRule(t) == Delimited(t, "!~", "!~")
\* /^~!([\s\S]+?)!~/
spoilerRule(t) == Delimited(t, "~!", "!~")

Backtick == {Tick}

\* /^`([^`]+?)`/
inlineCodeRule(t) ==
    LET p1 == Lit(t, 1, Tick, FALSE)
        p2 == PlusNot(t, p1, Backtick)
    IN Matched(t, Lit(t, p2, Tick, FALSE), p1, p2, 1, 1)

\* [\s<>"'{}|\\^`[\]]
UrlStops == Whitespace \cup {"<", ">", "\"", "'", "{", "}", "|", "\\", "^", Tick, "[", "]"}

\* /^(https?:\/\/[^\s<>"'{}|\\^`[\]]+)/
urlRule(t) ==
    LET p1 == IF StartsWith(t, "https://") THEN 9
              ELSE IF StartsWith(t, "http://") THEN 8 ELSE 0
        p2 == PlusNot(t, p1, UrlStops)
    IN Matched(t, p2, 1, p2, 1, 1)

\* inlineRules, in the order of the array: a name for each rule, its type
\* and what its regular expression answers for t
Rule(name, type, m) == [name |-> name, type |-> type, m |-> m]

inlineRules(t) ==
    << Rule("user-link", "user-link", userLinkRule(t)),
       Rule("anchored-image", "image", anchoredImageRule(t)),
       Rule("image-tag", "image", imageTagRule(t)),
       Rule("html-bold", "bold", htmlBoldRule(t)),
       Rule("html-link", "link", htmlLinkRule(t)),
       Rule("image", "image", imageRule(t)),
       Rule("youtube", "youtube", youtubeRule(t)),
       Rule("video", "video", videoRule(t)),
       Rule("link", "link", linkRule(t)),
       Rule("bold", "bold", boldRule(t)),
       Rule("italic", "italic", italicRule(t)),
       Rule("strike", "strike", strikeRule(t)),
       Rule("bang-spoiler", "spoiler", bangSpoilerRule(t)),
       Rule("spoiler", "spoiler", spoilerRule(t)),
       Rule("inline-code", "inline-code", inlineCodeRule(t)),
       Rule("url", "link", urlRule(t)) >>

\* The rules whose process calls parseInline, and the group it hands over.
Recursing == {"html-bold", "html-link", "bold", "italic", "strike", "bang-spoiler", "spoiler"}
InnerText(rule) == IF rule.name = "html-link" THEN rule.m.g2 ELSE rule.m.g1

\* The alternatives of the token search at line 200, tried at the head of t.
\* <[a|img|b] is a character class.
TokenAt(t) ==
    \/ userLinkRule(t).ok
    \/ \E mark \in {"[", "!~", "~!", "http://", "https://", Tick, "*", "_", "~~",
                    "img(", "youtube(", "video("} : StartsWith(t, mark)
    \/ Len(t) >= 2 /\ Head(t) = "<" /\ Head(Tail(t)) \in {"a", "|", "i", "m", "g", "b"}

\* text.search(...): the index (counted from 0) of the first place where a
\* token stands, -1 when there is none
nextTokenIndex(text) ==
    LET found == {i \in 0..(Len(text) - 1) : TokenAt(Drop(text, i))}
    IN IF found = {} THEN -1 ELSE Least(found)

\* const plainTextEnd = nextTokenIndex === -1 ? text.length : nextTokenIndex
plainTextEnd(text, index) == IF index = -1 THEN Len(text) ELSE index

plainTextTo_uptoToken(text, end) == Take(text, end)

\* text.slice(0, plainTextEnd > 0 ? plainTextEnd : 1)
plainTextTo(text, end) == Take(text, IF end > 0 THEN end ELSE 1)

plainText(text) == plainTextTo(text, plainTextEnd(text, nextTokenIndex(text)))

FirstOf_last(rules) ==
    LET matching == {i \in DOMAIN rules : rules[i].m.ok}
    IN IF matching = {} THEN Rule("none", "none", NoMatch)
       ELSE rules[CHOOSE i \in matching : \A j \in matching : j <= i]

\* The first rule of a list that matches; a rule named "none" when none does.
FirstOf(rules) ==
    LET matching == {i \in DOMAIN rules : rules[i].m.ok}
    IN IF matching = {} THEN Rule("none", "none", NoMatch) ELSE rules[Least(matching)]

\* The plain text cut off, as a rule named "text" whose match is that text.
TextRule(plain) == Rule("text", "text", Match(Len(plain), plain, ""))

\* if (!matched) { ... }
OrPlainText(rule, text) == IF rule.name # "none" THEN rule ELSE TextRule(plainText(text))

\* One iteration of the while loop of parseInline on the remaining text: the
\* first rule of inlineRules that matches, or else the plain text cut off.
Iteration(text) == OrPlainText(FirstOf(inlineRules(text)), text)

RECURSIVE parseInline(_)

\* rule.process(match) of a rule that does not call parseInline
processFlat(rule, m) ==
    CASE rule.name = "user-link" -> Seg("user-link", "@" \o m.g1, FALSE, << >>, "", 0, m.g1)
      [] rule.name = "anchored-image" -> Seg("image", m.g2, FALSE, << >>, m.g1, 0, "")
      [] rule.name = "image" -> Holding("image", m.g2)
      [] rule.name = "youtube" -> Seg("link", "youtube.com/watch?v=" \o m.g1, FALSE, << >>,
                                      "https://www.youtube.com/watch?v=" \o m.g1, 0, "")
      [] rule.name = "video" -> Seg("link", m.g1, FALSE, << >>, m.g1, 0, "")
      [] rule.name = "link" -> Seg("link", m.g1, FALSE, << >>, m.g2, 0, "")
      [] rule.name = "url" -> Seg("link", m.g1, FALSE, << >>, m.g1, 0, "")
      [] OTHER -> Holding(rule.type, m.g1)

processNested_unparsed(rule, children) == Holding(rule.type, InnerText(rule))

\* rule.process(match) of a rule that calls parseInline, given what the call
\* returned
processNested(rule, children) ==
    IF rule.name = "html-link" THEN Seg("link", "", TRUE, children, rule.m.g1, 0, "")
    ELSE Containing(rule.type, children)

\* { type: rule.type, ...rule.process(match) }
process(rule) ==
    IF rule.name \in Recursing THEN processNested(rule, parseInline(InnerText(rule)))
    ELSE processFlat(rule, rule.m)

pushText_apart(segments, plain) == Append(segments, Text(plain))

\* segments.push(...) of a plain text: joined to a text segment before it
pushText(segments, plain) ==
    IF segments # << >> /\ segments[Len(segments)].type = "text"
    THEN [segments EXCEPT ![Len(segments)].content = @ \o plain]
    ELSE Append(segments, Text(plain))

\* What one iteration does to segments
push(segments, rule) ==
    IF rule.name = "text" THEN pushText(segments, rule.m.g1)
    ELSE Append(segments, process(rule))

RECURSIVE inlineLoop(_, _)

\* text = text.slice(match[0].length), text = text.slice(plainText.length)
iterate(text, segments, rule) == inlineLoop(Drop(text, rule.m.len), push(segments, rule))

\* while (text.length > 0) { ... }
inlineLoop(text, segments) ==
    IF text = "" THEN segments ELSE iterate(text, segments, Iteration(text))

\* if (!line) return []
parseInline(line) == inlineLoop(line, << >>)

\* ------------------------------------------------------- block splitting
\* multilineRegex has the flag m: ^ stands at the start of the text and
\* after a line terminator.
LineStart(t, p) == p = 1 \/ SubSeq(t, p - 1, p - 1) \in LineTerminators

\* What exec answers when nothing matches (null)
NoBlock == [ok |-> FALSE, type |-> "", at |-> 0, end |-> 0, content |-> ""]

\* One alternative (^open([\s\S]*?)close) tried at position p
Fenced(t, p, open, close, type) ==
    LET p1 == Lit(t, p, open, FALSE)
        p2 == Until(t, p1, close, FALSE)
    IN IF p2 = 0 THEN NoBlock
       ELSE [ok |-> TRUE, type |-> type, at |-> p, end |-> p2 + Len(close),
             content |-> SubSeq(t, p1, p2 - 1)]

\* The alternatives of multilineRegex in their order, tried at position p
FirstBlock(tries) ==
    LET matching == {i \in DOMAIN tries : tries[i].ok}
    IN IF matching = {} THEN NoBlock ELSE tries[Least(matching)]

BlockAt(t, p) ==
    IF ~LineStart(t, p) THEN NoBlock
    ELSE FirstBlock(<< Fenced(t, p, Fence, Fence, "code-block"),
                       Fenced(t, p, "~~~", "~~~", "center"),
                       Fenced(t, p, "~!", "!~", "spoiler") >>)

\* multilineRegex.exec(remainingText) with the search starting at position
\* from: the leftmost match
exec(t, from) ==
    FirstBlock([p \in 1..Len(t) |-> IF p < from THEN NoBlock ELSE BlockAt(t, p)])

\* A block: a string to be read line by line (type "text") or an object
Block(type, content) == [type |-> type, content |-> content]

RECURSIVE splitBlocks(_, _)

\* One turn of the while loop for a match, and after the last match the
\* remainder; lastIndex is kept as the position of the next character to read.
blocksFrom(remainingText, lastIndex, match) ==
    IF ~match.ok
    THEN IF lastIndex <= Len(remainingText)
         THEN << Block("text", Drop(remainingText, lastIndex - 1)) >>
         ELSE << >>
    ELSE (IF match.at > lastIndex
          THEN << Block("text", SubSeq(remainingText, lastIndex, match.at - 1)) >>
          ELSE << >>)
         \o << Block(match.type, match.content) >>
         \o splitBlocks(remainingText, match.end)

\* while ((match = multilineRegex.exec(remainingText)) !== null) { ... }
splitBlocks(remainingText, lastIndex) ==
    blocksFrom(remainingText, lastIndex, exec(remainingText, lastIndex))

\* ----------------------------------------------------------- line rules
\* line.trim()
RECURSIVE TrimStart(_)
TrimStart(s) == IF s # "" /\ Head(s) \in Whitespace THEN TrimStart(Tail(s)) ELSE s
RECURSIVE TrimEnd(_)
TrimEnd(s) ==
    IF s # "" /\ SubSeq(s, Len(s), Len(s)) \in Whitespace THEN TrimEnd(Take(s, Len(s) - 1)) ELSE s
trim(s) == TrimEnd(TrimStart(s))

\* block.split('\n')
RECURSIVE split(_)
split(block) ==
    LET at == IndexOf(block, "\n", 1)
    IN IF at = 0 THEN << block >>
       ELSE << Take(block, at - 1) >> \o split(Drop(block, at))

\* /^mark([\s\S]+?)mark$/ : the whole of t between two marks, one character
\* or more
Wrapped(t, mark) ==
    IF StartsWith(t, mark) /\ EndsWith(t, mark) /\ Len(t) > 2 * Len(mark)
    THEN Match(Len(t), SubSeq(t, Len(mark) + 1, Len(t) - Len(mark)), "")
    ELSE NoMatch

loneFormatterRules_none(t) == << >>

\* loneFormatterRules, in the order of the array
loneFormatterRules(t) ==
    << Rule("bold", "bold", Wrapped(t, "**")),
       Rule("bold", "bold", Wrapped(t, "__")),
       Rule("italic", "italic", Wrapped(t, "*")),
       Rule("italic", "italic", Wrapped(t, "_")),
       Rule("strike", "strike", Wrapped(t, "~~")) >>

\* /^#<center>(.*)/
centerRule(t) ==
    LET p1 == Lit(t, 1, "#<center>", FALSE)
        p2 == StarNot(t, p1, LineTerminators)
    IN Matched(t, p2, p1, p2, 1, 1)

\* /^(#{1,5})\s+(.*)/ : g1 is the run of #, g2 the heading
MostHashes == 5
headingRule(t) ==
    LET hashes == Span(t, {"#"})
        p1 == IF hashes \in 1..MostHashes THEN Plus(t, hashes + 1, Whitespace) ELSE 0
        p2 == StarNot(t, p1, LineTerminators)
    IN Matched(t, p2, 1, hashes + 1, p1, p2)

\* /^>\s?(.*)/
blockquoteRule(t) ==
    LET p1 == Lit(t, 1, ">", FALSE)
        p2 == IF p1 # 0 /\ p1 <= Len(t) /\ SubSeq(t, p1, p1) \in Whitespace THEN p1 + 1 ELSE p1
        p3 == StarNot(t, p2, LineTerminators)
    IN Matched(t, p3, p2, p3, 1, 1)

\* /^---\s*$/
hrRule(t) ==
    LET p1 == Star(t, Lit(t, 1, "---", FALSE), Whitespace)
    IN Matched(t, IF p1 = Len(t) + 1 THEN p1 ELSE 0, 1, 1, 1, 1)

\* lineStartRules, in the order of the array
lineStartRules(t) ==
    << Rule("center", "center", centerRule(t)),
       Rule("heading", "heading", headingRule(t)),
       Rule("blockquote", "blockquote", blockquoteRule(t)),
       Rule("hr", "hr", hrRule(t)) >>

\* The string the rule found for a line hands to parseInline: the content
\* of the lone formatter, else that of the line-start rule, else the line
lineContent(line, lone, start) ==
    IF lone.name # "none" THEN lone.m.g1
    ELSE IF start.name = "hr" THEN ""
    ELSE IF start.name = "heading" THEN start.m.g2
    ELSE IF start.name # "none" THEN start.m.g1
    ELSE line

\* What is pushed for the line, given what parseInline returned
linePushed(lone, start, content) ==
    IF lone.name # "none" THEN << Containing("center", content) >>
    ELSE IF start.name = "hr" THEN << Holding("hr", "") >>
    ELSE IF start.name = "heading"
         THEN << Seg("heading", "", TRUE, content, "", Len(start.m.g1), "") >>
    ELSE IF start.name # "none" THEN << Containing(start.type, content) >>
    ELSE content

\* if (i < lines.length - 1) resultSegments.push({ type: 'br', content: '' })
lineBreak(last) == IF last THEN << >> ELSE << Br >>

lineWith(line, last, lone, start) ==
    IF line = "" /\ ~last THEN << Br >>
    ELSE linePushed(lone, start, parseInline(lineContent(line, lone, start))) \o lineBreak(last)

\* What the body of the for loop over the lines pushes for lines[i]
\* (last: i is lines.length - 1)
lineSegments(line, last) ==
    lineWith(line, last, FirstOf(loneFormatterRules(trim(line))), FirstOf(lineStartRules(line)))

RECURSIVE linesSegments(_)
linesSegments(lines) ==
    IF lines = << >> THEN << >>
    ELSE lineSegments(Head(lines), Len(lines) = 1) \o linesSegments(Tail(lines))

\* ---------------------------------------------------------- parseComment
\* What a call that raised a RangeError gives instead of a list of segments.
Thrown == << Holding("RangeError", "") >>

\* text.replace(/<br>/g, '\n'), the text decodeHtmlEntities is given
unbroken(text) == ReplaceAll(text, "<br>", "\n")

\* cleanedText
cleaned(text) == decodeHtmlEntities(unbroken(text))

RECURSIVE parseComment(_)

\* A spoiler or a center block around what parseComment made of its content
blockAround(type, content) ==
    IF content = Thrown THEN Thrown ELSE << Containing(type, content) >>

blockSegments_codeParsed(block) ==
    CASE block.type = "text" -> linesSegments(split(block.content))
      [] block.type = "code-block" -> << Containing("code-block", parseInline(block.content)) >>
      [] OTHER -> blockAround(block.type, parseComment(block.content))

\* What the loops at lines 130-142 and 217-268 make of one block, the
\* spoiler and the center block being parsed by a call of parseComment and
\* the code block being pushed as it is.
blockSegments(block) ==
    CASE block.type = "text" -> linesSegments(split(block.content))
      [] block.type = "code-block" -> << Holding("code-block", block.content) >>
      [] OTHER -> blockAround(block.type, parseComment(block.content))

\* resultSegments.push(...), unless a call has thrown
pushed(first, rest) == IF first = Thrown \/ rest = Thrown THEN Thrown ELSE first \o rest

RECURSIVE blocksSegments(_)
blocksSegments(blocks) ==
    IF blocks = << >> THEN << >>
    ELSE pushed(blockSegments(Head(blocks)), blocksSegments(Tail(blocks)))

parseComment(text) ==
    IF decodeThrows(unbroken(text)) THEN Thrown
    ELSE blocksSegments(splitBlocks(cleaned(text), 1))

\* --------------------------------------------------- the parser on its own
\* parseComment as a function of the string it is given.
\* The longest string drawn freely from an alphabet.
MaxLen == 3

\* The strings of at most n characters of an alphabet.
RECURSIVE Words(_, _)
Words(alphabet, n) ==
    IF n = 0 THEN {""}
    ELSE {""} \cup {c \o w : c \in alphabet, w \in Words(alphabet, n - 1)}

\* A letter, a digit, the space and the parentheses.
PlainAlphabet == {"a", "1", " ", "(", ")"}
\* The characters of emphasis, spoilers, quotes and line breaks, and a letter.
MarkupAlphabet == {"a", "*", "~", "!", "_", ">", "\n"}
\* What a code block may hold without ending: markup characters and a letter.
CodeAlphabet == {"a", "*", "[", "@", "\n"}

\* Plain strings, alone and after the name of an embed.
PlainInputs ==
    {name \o w : name \in {"", "x", "img", "youtube", "video"}, w \in Words(PlainAlphabet, MaxLen)}

\* A spoiler around a content, from the start of the text and after a letter.
SpoilerInputs ==
    {before \o "~!" \o x \o "!~" : before \in {"", "a"}, x \in Words(MarkupAlphabet, MaxLen)}

\* A code block between the end of one text and the start of another.
CodeCases ==
    [before : {"", "a\n"}, content : Words(CodeAlphabet, MaxLen), after : {"", "b", "\n*b*"}]
Composed(case) == case.before \o Fence \o case.content \o Fence \o case.after
CodeInputs == {Composed(case) : case \in CodeCases}

\* The most dashes on a line.
MaxDashes == 5

\* A line of n dashes.
RECURSIVE Dashes(_)
Dashes(n) == IF n = 0 THEN "" ELSE "-" \o Dashes(n - 1)

\* A line of dashes, alone and between two other lines.
DashCases == [before : {"", "a\n"}, dashes : 1..MaxDashes, after : {"", "\nb"}]
DashLine(case) == case.before \o Dashes(case.dashes) \o case.after
DashInputs == {DashLine(case) : case \in DashCases}

\* The markers of bold, italic and strike.
EmphasisMarks == {"**", "__", "*", "_", "~~"}
Emphasised(mark, x) == mark \o x \o mark

\* A line that starts with an emphasis span: the span alone, or followed by
\* other text and a second span of the same kind, or by a tail of text, with
\* blanks around the line or not.
EmphasisCases ==
    [mark : EmphasisMarks, first : {"a", "a b"}, between : {"", " and ", "b"},
     tail : {"", " c"}, pad : {"", " "}]
EmphasisLine(case) ==
    case.pad \o Emphasised(case.mark, case.first)
        \o (IF case.between = "" THEN "" ELSE case.between \o Emphasised(case.mark, "b"))
        \o case.tail \o case.pad
EmphasisInputs == {EmphasisLine(case) : case \in EmphasisCases}

\* Texts of references and escapes: a reserved-character escape, a numeric
\* reference or plain characters, alone and before another of them.
EntityPieces == {"&amp;", "&lt;", "&gt;", "&#38;", "&#65;", "amp;", "lt;", "#65;", "a"}
EntityCases == [first : EntityPieces \cup {""}, second : EntityPieces]
EntityText(case) == case.first \o case.second
EntityInputs == {EntityText(case) : case \in EntityCases}

\* Comments as they are written: nesting, references, tags.
Samples ==
    {"**[a](http://x)**", "x**[a](http://x)**", "**a** and **b**", "[a](http://x)",
     "__*a*__ b", "~!hidden!~", "a ~!hidden!~", "~~~\n~!a!~\n~~~", "# a\n> *b*\n---",
     "&#65;&#10;&#38;", "&#1114111;", "&#1114112;", "a &#99999999999; b", "~!&#38;#1114112;!~",
     "a<br>b", Fence \o "&#42;*a<br>" \o Fence, "<b>a <B>b</b></b>", "<a href=\"u\">*a*</a>", "@a-1 https://x.y/z",
     "img220(u)", "x img220(u)", "youtube(v)",
     "<a href=\"u\"><img src=\"s\"></a>", "a **b** https://x **c**",
     "ximg1(a)", "x<B>a</B>", "a <IMG src=\"s\">"}

Inputs == Words(MarkupAlphabet, MaxLen) \cup PlainInputs \cup SpoilerInputs \cup CodeInputs
          \cup DashInputs \cup EmphasisInputs \cup EntityInputs \cup Samples

\* Nothing else goes on: the session is as it starts, and any string may be
\* the one to parse.
ParserInit ==
    /\ currentUser = NULL
    /\ view = "list"
    /\ selectedThread = NULL
    /\ comments = NULL
    /\ error = NULL
    /\ replyingToCommentId = NULL
    /\ editingCommentId = NULL
    /\ isReplyingToThread = FALSE
    /\ isSubmitting = FALSE
    /\ commentSort = "ID_DESC"
    /\ commentsHasNextPage = FALSE
    /\ calls = EmptyBag
    /\ issued = 0
    /\ uncaught = FALSE
    /\ snap = NoSnap
    /\ input \in Inputs
    /\ resultSegments = NULL
    /\ frame = NoFrame

\* parseComment(comment.comment), parseComment(thread.body)
parses ==
    /\ resultSegments = NULL
    /\ resultSegments' = Some(parseComment(input))
    /\ UNCHANGED << currentUser, view, selectedThread, comments, error,
                 replyingToCommentId, editingCommentId, isReplyingToThread,
                 isSubmitting, commentSort, commentsHasNextPage, calls,
                 issued, uncaught, snap, input, frame >>

ParserNext == parses

ParserSpec == ParserInit /\ [][ParserNext]_vars

\* C13: parsing never throws: whatever string it is given, the call returns
\* a list of segments.
C13_ParsingNeverThrows == resultSegments # Some(Thrown)

\* ------------------------------------------------- the calls of one parse
\* One call of parseComment followed through the calls it makes: from a
\* call into any one of the calls its body makes, and through the
\* iterations of the loop of parseInline.
parseCommentCalled ==
    /\ frame = NoFrame
    /\ frame' = Frame("parseComment", input, "top", "", 0)
    /\ UNCHANGED << currentUser, view, selectedThread, comments, error,
                 replyingToCommentId, editingCommentId, isReplyingToThread,
                 isSubmitting, commentSort, commentsHasNextPage, calls,
                 issued, uncaught, snap, input, resultSegments >>

\* The blocks of the call followed, when cleaning its text does not throw
blocksOf(f) ==
    IF decodeThrows(unbroken(f.text)) THEN << >> ELSE splitBlocks(cleaned(f.text), 1)

\* parseComment(match[6]) for a spoiler block, parseComment(block.content)
\* for a center block
parseCommentRecurses ==
    \E block \in Range(blocksOf(frame)) :
        /\ frame.fn = "parseComment"
        /\ block.type \in {"spoiler", "center"}
        /\ frame' = Frame("parseComment", block.content, block.type, frame.text, frame.depth + 1)
        /\ UNCHANGED << currentUser, view, selectedThread, comments, error,
                     replyingToCommentId, editingCommentId,
                     isReplyingToThread, isSubmitting, commentSort,
                     commentsHasNextPage, calls, issued, uncaught, snap,
                     input, resultSegments >>

\* How the line loop comes to call parseInline for a line
lineVia(lone, start) ==
    IF lone.name # "none" THEN "loneFormatter"
    ELSE IF start.name # "none" THEN "lineStart"
    ELSE "line"

\* The call of parseInline the line loop makes for a line, if it makes one
lineCall(f, line, lone, start) ==
    /\ lone.name = "none" => start.name # "hr" /\ line # ""
    /\ frame' = Frame("parseInline", lineContent(line, lone, start), lineVia(lone, start),
                      f.text, f.depth + 1)

\* rule.process(match) of a lone formatter or a line-start rule, and
\* parseInline(line)
parseCommentCallsParseInline ==
    \E block \in Range(blocksOf(frame)) :
        \E line \in Range(split(block.content)) :
            /\ frame.fn = "parseComment"
            /\ block.type = "text"
            /\ lineCall(frame, line, FirstOf(loneFormatterRules(trim(line))),
                        FirstOf(lineStartRules(line)))
            /\ UNCHANGED << currentUser, view, selectedThread, comments, error,
                         replyingToCommentId, editingCommentId,
                         isReplyingToThread, isSubmitting, commentSort,
                         commentsHasNextPage, calls, issued, uncaught, snap,
                         input, resultSegments >>

\* One iteration of while (text.length > 0)
parseInlineIterates ==
    /\ frame.fn = "parseInline"
    /\ frame.rest # ""
    /\ frame' = [frame EXCEPT !.rest = Drop(frame.rest, Iteration(frame.rest).m.len),
                              !.iterated = TRUE,
                              !.was = frame.rest,
                              !.by = Iteration(frame.rest).name]
    /\ UNCHANGED << currentUser, view, selectedThread, comments, error,
                 replyingToCommentId, editingCommentId, isReplyingToThread,
                 isSubmitting, commentSort, commentsHasNextPage, calls,
                 issued, uncaught, snap, input, resultSegments >>

\* The call of parseInline that the rule applied makes
contentCall(f, rule) ==
    /\ rule.name \in Recursing
    /\ frame' = Frame("parseInline", InnerText(rule), "content", f.text, f.depth + 1)

\* rule.process(match) of a rule whose content is parsed
parseInlineRecurses ==
    /\ frame.fn = "parseInline"
    /\ frame.rest # ""
    /\ contentCall(frame, Iteration(frame.rest))
    /\ UNCHANGED << currentUser, view, selectedThread, comments, error,
                 replyingToCommentId, editingCommentId, isReplyingToThread,
                 isSubmitting, commentSort, commentsHasNextPage, calls,
                 issued, uncaught, snap, input, resultSegments >>

RunNext ==
    \/ parseCommentCalled
    \/ parseCommentRecurses
    \/ parseCommentCallsParseInline
    \/ parseInlineIterates
    \/ parseInlineRecurses

RunSpec == ParserInit /\ [][RunNext]_vars

\* C14: each iteration of the inline loop leaves less text to read than it
\* found, and every call made for the content of a rule, of a spoiler block
\* or of a center block is given a string shorter than the one its caller
\* was given.
C14_EveryStepAdvances ==
    /\ frame.iterated => Len(frame.rest) < Len(frame.was)
    /\ frame.via \in {"content", "loneFormatter", "lineStart", "spoiler", "center"}
           => Len(frame.text) < Len(frame.from)

\* An inline loop three calls down has read its text to the end.
C14_Witness ==
    /\ frame.via = "content"
    /\ frame.depth >= 3
    /\ frame.iterated
    /\ frame.rest = ""

\* What the call returned, once it has
Returned == resultSegments # NULL
Result == Get(resultSegments)

\* The link of [a](http://x): its text is kept as a string.
LinkA == Seg("link", "a", FALSE, << >>, "http://x", 0, "")

C16_PlainTextIsOneText ==
    input \in PlainInputs /\ Returned => Result = << Text(input) >>

\* An embed stands at the head of t: img, digits if any, and a parenthesised
\* argument; or youtube or video and a parenthesised argument that is not
\* empty.
ImgEmbedAt(t) ==
    LET open == Lit(t, Star(t, Lit(t, 1, "img", FALSE), Digits), "(", FALSE)
    IN open # 0 /\ IndexOf(t, ")", open) # 0
NamedEmbedAt(t, name) ==
    StartsWith(t, name \o "(") /\ IndexOf(t, ")", Len(name) + 2) > Len(name) + 2
HoldsEmbed(s) ==
    \E i \in 0..Len(s) :
        ImgEmbedAt(Drop(s, i)) \/ NamedEmbedAt(Drop(s, i), "youtube")
            \/ NamedEmbedAt(Drop(s, i), "video")

\* C16 as the code has it: the empty string parses to no segment at all, and
\* a string of letters, digits, spaces and parentheses that is not empty and
\* holds no embed (img(...), img<digits>(...), youtube(...), video(...))
\* parses to exactly one Text segment holding it.
C16_PlainTextWithoutEmbed ==
    input \in PlainInputs /\ Returned
        => /\ input = "" => Result = << >>
           /\ input # "" /\ ~HoldsEmbed(input) => Result = << Text(input) >>

C16_Witness ==
    /\ input = "img(a"
    /\ Returned
    /\ Result = << Text("img(a") >>

\* A fence opens the text or its second line.
StartsWithFence(s) == StartsWith(s, Fence) \/ StartsWith(s, "a\n" \o Fence)

\* C17: the content of a fenced code block, as it stands in the cleaned
\* text, comes out as one code-block segment holding exactly that content,
\* whatever markup it holds, between what the text before the block and the
\* text after it parse to; references and <br> are resolved in the whole
\* comment before the blocks are looked for.
C17_CodeBlockVerbatim ==
    /\ Returned /\ StartsWithFence(input)
           => \A case \in CodeCases :
                  input = Composed(case)
                      => Result = parseComment(case.before)
                                  \o << Holding("code-block", case.content) >>
                                  \o parseComment(case.after)
    /\ input = Fence \o "&#42;*a<br>" \o Fence /\ Returned
           => Result = << Holding("code-block", "**a\n") >>

C17_Witness ==
    /\ input = "a\n" \o Fence \o "*a*" \o Fence \o "\n*b*"
    /\ Returned
    /\ Len(Result) = 5
    /\ Result[3] = Holding("code-block", "*a*")

\* The contents drawn that hold no closing mark of a spoiler.
SpoilerContents == {x \in Words(MarkupAlphabet, MaxLen) : IndexOf(x, "!~", 1) = 0}

\* The text opens with a spoiler mark, or with one after a letter, and ends
\* with the closing mark.
Spoilt(s) == (StartsWith(s, "~!") \/ StartsWith(s, "a~!")) /\ EndsWith(s, "!~")

\* C18: ~!X!~ yields a single Spoiler whose children are what parsing X on
\* its own yields, at the start of a line and in the middle of one.
C18_SpoilerHoldsParseOfContent ==
    Returned /\ Spoilt(input)
        => \A x \in SpoilerContents :
               /\ input = "~!" \o x \o "!~"
                      => Result = << Containing("spoiler", parseComment(x)) >>
               /\ input = "a~!" \o x \o "!~"
                      => Result = << Text("a"), Containing("spoiler", parseComment(x)) >>

\* C18 as the code has it: at the start of the text ~!X!~ is a spoiler block
\* and its children are what parseComment yields for X; after plain text on
\* its line, X being neither empty nor broken over lines, it is an inline
\* spoiler and its children are what the inline rules alone yield for X.
C18_SpoilerBlockAndInline ==
    /\ Returned /\ Spoilt(input)
           => \A x \in SpoilerContents :
                  /\ input = "~!" \o x \o "!~"
                         => Result = << Containing("spoiler", parseComment(x)) >>
                  /\ input = "a~!" \o x \o "!~" /\ x # "" /\ IndexOf(x, "\n", 1) = 0
                         => Result = << Text("a"), Containing("spoiler", parseInline(x)) >>
    /\ input = "~!hidden!~" /\ Returned
           => Result = << Containing("spoiler", << Text("hidden") >>) >>

\* An inline spoiler around *a* holds an Italic, where *a* on its own is a
\* Center.
C18_Witness ==
    /\ input = "a~!*a*!~"
    /\ Returned
    /\ Result = << Text("a"), Containing("spoiler", << Containing("italic", << Text("a") >>) >>) >>
    /\ parseComment("*a*") = << Containing("center", << Text("a") >>) >>

\* ------------------------------------------------------------ line rules
\* The segments of the lines around a line of dashes
BeforeSegments(case) == IF case.before = "" THEN << >> ELSE << Text("a"), Br >>
AfterSegments(case) == IF case.after = "" THEN << >> ELSE << Br, Text("b") >>

\* What the line of dashes itself came out as
DashSegments(case) ==
    SubSeq(Result, Len(BeforeSegments(case)) + 1, Len(Result) - Len(AfterSegments(case)))

\* C21: a line consisting solely of three or more dashes (3, 4, 5, ...) is
\* parsed as a single HorizontalRule segment; a line of fewer than three
\* dashes is not.
C21_ThreeOrMoreDashesIsRule ==
    \A case \in DashCases :
        input = DashLine(case) /\ Returned
            => (case.dashes >= 3 <=> DashSegments(case) = << Holding("hr", "") >>)

\* The line is one single emphasis span and nothing else
OneSpanOnly(case) == case.between = "" /\ case.tail = ""

\* The call returned one implicit Center block and nothing else
OneCenter == Len(Result) = 1 /\ Result[1].type = "center"

\* C22: a line is treated as an implicit Center block by the lone-formatter
\* check exactly when its entire trimmed content is one single bold, italic
\* or strike span and nothing else; a line that begins and ends with emphasis
\* markers but has other text or a second span between them, as in
\* **a** and **b**, is not, and goes on to the inline rules.
C22_CenterOnlyForOneSpan ==
    \A case \in EmphasisCases :
        input = EmphasisLine(case) /\ Returned
            => /\ OneCenter <=> OneSpanOnly(case)
               /\ ~OneSpanOnly(case) => Result = parseInline(input)

\* ------------------------------------------------------- rule priority
\* The priority list of the inline rules, highest first: mention, anchor
\* around an image, image tag, HTML bold, HTML anchor, img embed, youtube,
\* video, markdown link, bold, italic, strike, spoiler, inline code, bare URL.
PriorityList ==
    << {"user-link"}, {"anchored-image"}, {"image-tag"}, {"html-bold"}, {"html-link"},
       {"image"}, {"youtube"}, {"video"}, {"link"}, {"bold"}, {"italic"}, {"strike"},
       {"bang-spoiler", "spoiler"}, {"inline-code"}, {"url"} >>
Priority(name) == CHOOSE i \in DOMAIN PriorityList : name \in PriorityList[i]

\* The names of the rules that match at the head of what rules was asked
MatchingAt(rules) == {rules[i].name : i \in {j \in DOMAIN rules : rules[j].m.ok}}

\* by is the rule of highest priority among those matching, and the plain
\* text step when none matches
HighestOf(by, matching) ==
    IF matching = {} THEN by = "text"
    ELSE by \in matching /\ \A other \in matching : Priority(by) <= Priority(other)

\* C23: at every scan position of the inline engine, the segment produced is
\* that of the rule highest in the priority list among the rules matching at
\* that position, and a rule that matches only further on is not applied:
\* the plain text step is taken instead.
C23_HighestPriorityRuleApplies ==
    frame.iterated => HighestOf(frame.by, MatchingAt(inlineRules(frame.was)))

\* An iteration found more than one rule matching where it stood and applied
\* the bold rule.
SeveralMatched == Cardinality(MatchingAt(inlineRules(frame.was))) > 1
C23_Witness ==
    /\ frame.iterated
    /\ frame.by = "bold"
    /\ SeveralMatched

\* ------------------------------------------------------ the segment tree
\* The segments of a list and of the lists they hold
RECURSIVE SegmentsOf(_)
SegmentsOf(list) ==
    UNION {{list[i]} \cup (IF list[i].nested THEN SegmentsOf(list[i].children) ELSE {})
               : i \in DOMAIN list}

\* The segments that hold other segments
Containers ==
    {"bold", "italic", "strike", "center", "blockquote", "heading", "spoiler", "link"}

\* An inline rule matches somewhere in s
RuleMatchesIn(s) ==
    \E i \in 0..(Len(s) - 1) : MatchingAt(inlineRules(Drop(s, i))) # {}

\* C24: in every segment tree the parser produces, every container segment
\* (Bold, Italic, Strike, Center, Blockquote, Heading, Spoiler, Link) holds a
\* list of parsed child segments, and no Text segment holds a place at which
\* an inline rule matches.
C24_TreesFullyParsed ==
    Returned /\ Result # Thrown
        => \A seg \in SegmentsOf(Result) :
               /\ seg.type \in Containers => seg.nested
               /\ seg.type = "text" => ~RuleMatchesIn(seg.content)

\* ------------------------------------------------------- entity decoding
\* What a reference or an escape stands for, and any other text for itself
Resolved(piece) ==
    CASE piece = "&amp;" -> "&"
      [] piece = "&lt;" -> "<"
      [] piece = "&gt;" -> ">"
      [] piece = "&#38;" -> "&"
      [] piece = "&#65;" -> "A"
      [] OTHER -> piece

\* C25: the entity decoder resolves numeric character references and the
\* reserved-character escapes (&amp; to &, &lt; to <, &gt; to >), the escapes
\* last, and the text a numeric reference decodes to is not read again as
\* part of an escape: the reference for & followed by lt; does not end up as
\* <. Each reference and each escape of the text is replaced by what it
\* stands for, once.
C25_EscapesResolvedOnce ==
    \A case \in EntityCases :
        input = EntityText(case) /\ Returned
            => Result = << Text(Resolved(case.first) \o Resolved(case.second)) >>

\* ------------------------------------------------------ optimistic nodes
\* The nodes of a collection, at every depth
RECURSIVE NodesOf(_)
NodesOf(list) ==
    IF list = << >> THEN {}
    ELSE {Head(list)} \cup NodesOf(Head(list).childComments) \cup NodesOf(Tail(list))

Optimistic == {c \in NodesOf(OrEmpty(comments)) : c.isOptimistic}

\* C26: in every reachable state every node with isOptimistic = true has an
\* empty list of children: no user action gives a temporary node a child
\* before it is confirmed or removed.
C26_OptimisticNodesAreLeaves ==
    \A c \in Optimistic : c.childComments = << >>

\* C28: once every outstanding remote call of a reply has resolved, the
\* collection holds no node with isOptimistic = true, whatever replies,
\* likes, edits, deletes and loads of comments went before and in whatever
\* order their calls resolved.
C28_OptimisticNodesAreTransient ==
    Pending("saveReply") = {} => Optimistic = {}

\* The last outstanding call of a reply has just been confirmed and its
\* comment stands in the collection beside other nodes.
C28_Witness ==
    /\ snap.op = "replyOk"
    /\ Pending("saveReply") = {}
    /\ snap.other \in IdsOf(OrEmpty(comments))
    /\ Size(OrEmpty(comments)) >= 2

\* ------------------------------------------------------- late settlements
\* The step is the confirmation or the rollback of a reply, or the rollback
\* of an edit
LateSettles == snap'.op \in {"replyOk", "replyFailed", "editFailed"}

\* C29: a confirmation or a rollback that arrives after the collection was
\* cleared or replaced (back to the list, another entry, another thread,
\* another sort order) does not alter it: a cleared (null) collection stays
\* null, and a reloaded collection, which does not hold the node the call
\* was about, keeps exactly the nodes that were loaded.
C29_LateSettleLeavesCollection ==
    [][LateSettles => /\ comments = NULL => comments' = NULL
                      /\ snap'.id \notin IdsOf(OrEmpty(comments)) => comments' = comments]_vars

\* C30: after an accepted reply and before its remote call resolves, the
\* collection holds exactly one node carrying the placeholder id, and a
\* successful confirmation makes the persisted comment appear in the
\* collection.
C30_PlaceholderHeldUntilResolved ==
    /\ \A c \in Pending("saveReply") : IsOnly(Read(comments), c.id)
    /\ snap.op = "replyOk" => snap.other \in IdsOf(OrEmpty(comments))

\* ------------------------------------------- the promise-chain handlers
\* The version of the plugin whose handlers ask for the token themselves and
\* chain then, catch and finally on ctx.fetch.  Its buttons leave the busy
\* flag alone.  Left out: likes, navigation to another entry, the thread
\* list, and the dialog between Delete and its Yes (one step).

\* tray.onOpen: fetchViewer() up to its await, when a token is there
chainTrayOnOpen ==
    /\ currentUser = NULL
    /\ Issue(PlainCall("fetchViewer"))
    /\ snap' = NoSnap
    /\ UNCHANGED << currentUser, view, selectedThread, comments, error,
                 replyingToCommentId, editingCommentId, isReplyingToThread,
                 isSubmitting, commentSort, commentsHasNextPage, uncaught,
                 input, resultSegments, frame >>

\* fetchComments after its await: comments.set(parsedComments || [])
chainFetchCommentsOk(c, response) ==
    /\ c.kind = "fetchComments"
    /\ comments' = Some(response.comments)
    /\ calls' = Settle(c)
    /\ snap' = NoSnap
    /\ UNCHANGED << currentUser, view, selectedThread, error,
                 replyingToCommentId, editingCommentId, isReplyingToThread,
                 isSubmitting, commentSort, commentsHasNextPage, issued,
                 uncaught, input, resultSegments, frame >>

\* back-to-list
chainBackToList ==
    /\ ThreadViewShown
    /\ view' = "list"
    /\ selectedThread' = NULL
    /\ comments' = NULL
    /\ replyingToCommentId' = NULL
    /\ editingCommentId' = NULL
    /\ isReplyingToThread' = FALSE
    /\ snap' = NoSnap
    /\ UNCHANGED << currentUser, error, isSubmitting, commentSort,
                 commentsHasNextPage, calls, issued, uncaught, input,
                 resultSegments, frame >>

\* reply-to-comment-<id>
chainReplyClicked ==
    \E c \in WithButtons :
        /\ replyingToCommentId' = Some(c.id)
        /\ editingCommentId' = NULL
        /\ isReplyingToThread' = FALSE
        /\ snap' = NoSnap
        /\ UNCHANGED << currentUser, view, selectedThread, comments, error,
                     isSubmitting, commentSort, commentsHasNextPage, calls,
                     issued, uncaught, input, resultSegments, frame >>

\* edit-comment-<id>, offered on the viewer's own comments
chainEditClicked ==
    \E c \in WithButtons :
        /\ currentUser # NULL /\ c.user = Get(currentUser)
        /\ editingCommentId' = Some(c.id)
        /\ replyingToCommentId' = NULL
        /\ isReplyingToThread' = FALSE
        /\ snap' = NoSnap
        /\ UNCHANGED << currentUser, view, selectedThread, comments, error,
                     isSubmitting, commentSort, commentsHasNextPage, calls,
                     issued, uncaught, input, resultSegments, frame >>

\* reply-to-thread ("Post a new comment"), shown while the box is closed
chainReplyToThreadClicked ==
    /\ ThreadViewShown
    /\ ~isReplyingToThread
    /\ isReplyingToThread' = TRUE
    /\ replyingToCommentId' = NULL
    /\ editingCommentId' = NULL
    /\ snap' = NoSnap
    /\ UNCHANGED << currentUser, view, selectedThread, comments, error,
                 isSubmitting, commentSort, commentsHasNextPage, calls,
                 issued, uncaught, input, resultSegments, frame >>

\* if (token) { ctx.fetch(...).then(...).catch(...).finally(...) }
chainFetch(token, c) ==
    IF token THEN Issue(c) ELSE UNCHANGED << calls, issued >>

\* handlePostReply up to the end of its body; token: what
\* $database.anilist.getToken() answers is truthy
chainPostReply(text, parentCommentId, token) ==
    /\ submitGuard(selectedThread, text, isSubmitting)
    /\ IF currentUser = NULL
       THEN /\ error' = Some("Cannot post reply, user data not loaded.")
            /\ isSubmitting' = FALSE
            /\ snap' = NoSnap
            /\ UNCHANGED << currentUser, view, selectedThread, comments,
                         replyingToCommentId, editingCommentId,
                         isReplyingToThread, commentSort,
                         commentsHasNextPage, calls, issued, uncaught, input,
                         resultSegments, frame >>
       ELSE /\ Size(OrEmpty(comments)) < MaxNodes
            /\ \E temporaryId \in TemporaryIds :
                 /\ comments' = Some(insertReply(OrEmpty(comments), parentCommentId,
                                        newComment(temporaryId, text, Get(currentUser))))
                 /\ chainFetch(token, Call("saveReply", temporaryId, text, 0, ""))
            /\ isSubmitting' = TRUE
            /\ error' = NULL
            /\ snap' = NoSnap
            /\ UNCHANGED << currentUser, view, selectedThread,
                         replyingToCommentId, editingCommentId,
                         isReplyingToThread, commentSort,
                         commentsHasNextPage, uncaught, input,
                         resultSegments, frame >>

\* send-reply-<id> and send-reply-thread
chainSendReply ==
    \E c \in WithButtons, text \in ReplyTexts, token \in BOOLEAN :
        /\ replyingToCommentId = Some(c.id)
        /\ chainPostReply(text, Some(c.id), token)

chainPostComment ==
    \E text \in ReplyTexts, token \in BOOLEAN :
        /\ ThreadViewShown
        /\ isReplyingToThread
        /\ chainPostReply(text, NULL, token)

\* handleEditComment up to the end of its body
chainEditComment(commentId, newText, token) ==
    /\ submitGuard(selectedThread, newText, isSubmitting)
    /\ chainFetch(token, Call("saveEdit", commentId,
                              capturedOriginalText(OrEmpty(comments), commentId, ""), 0,
                              TextShown(OrEmpty(comments), commentId)))
    /\ comments' = Some(findAndUpdateInTree(OrEmpty(comments), commentId, newText))
    /\ editingCommentId' = NULL
    /\ isSubmitting' = TRUE
    /\ error' = NULL
    /\ snap' = NoSnap
    /\ UNCHANGED << currentUser, view, selectedThread, replyingToCommentId,
                 isReplyingToThread, commentSort, commentsHasNextPage,
                 uncaught, input, resultSegments, frame >>

\* save-edit-<id>
chainSaveEdit ==
    \E c \in Shown, newText \in EditTexts, token \in BOOLEAN :
        /\ editingCommentId = Some(c.id)
        /\ chainEditComment(c.id, newText, token)

\* handleDeleteComment up to the end of its body (the boxes are as the
\* Delete button left them)
chainDeleteComment(commentId, token) ==
    /\ deleteGuard(isSubmitting)
    /\ chainFetch(token, PlainCall("deleteComment"))
    /\ comments' = Some(removeCommentFromTree(OrEmpty(comments), commentId))
    /\ isSubmitting' = TRUE
    /\ error' = NULL
    /\ snap' = NoSnap
    /\ UNCHANGED << currentUser, view, selectedThread, commentSort,
                 commentsHasNextPage, uncaught, input, resultSegments, frame >>

\* delete-comment-<id>, offered on the viewer's own comments, which closes
\* the boxes, and confirm-delete-<id>
chainDeleteConfirmed ==
    \E c \in WithButtons, token \in BOOLEAN :
        /\ currentUser # NULL /\ c.user = Get(currentUser)
        /\ editingCommentId' = NULL
        /\ replyingToCommentId' = NULL
        /\ isReplyingToThread' = FALSE
        /\ chainDeleteComment(c.id, token)

\* A promise settles: then or catch, and finally, do what the awaited
\* handlers do after their await.
chainSettles ==
    \/ \E c \in Pending("fetchViewer"), ok \in BOOLEAN : fetchViewerSettles(c, ok)
    \/ \E c \in Pending("fetchComments") :
          \/ \E response \in FirstPages : chainFetchCommentsOk(c, response)
          \/ fetchCommentsFails(c)
    \/ \E c \in Pending("saveReply") :
          \/ \E canonicalId \in CanonIds : saveReplyOk(c, canonicalId)
          \/ saveReplyFails(c)
    \/ \E c \in Pending("saveEdit") : saveEditOk(c) \/ saveEditFails(c)
    \/ \E c \in Pending("deleteComment"), outcome \in {"deleted", "notDeleted", "error"} :
          deleteCommentSettles(c, outcome)

ChainNext ==
    \/ chainTrayOnOpen
    \/ \E thread \in Threads : selectThread(thread)
    \/ chainBackToList
    \/ chainReplyClicked
    \/ chainEditClicked
    \/ chainReplyToThreadClicked
    \/ chainSendReply
    \/ chainPostComment
    \/ chainSaveEdit
    \/ chainDeleteConfirmed
    \/ chainSettles

\* Every remote call resolves in the end.
ChainSpec == Init /\ [][ChainNext]_vars /\ WF_vars(chainSettles)

\* C27: every accepted submission releases the busy flag: each remote call
\* resolving in the end, whenever a reply, an edit or a delete sets the busy
\* flag, the flag is cleared again later, on every path (success, failure,
\* no current user, no authentication token).
C27_BusyFlagIsReleased == isSubmitting ~> ~isSubmitting

====
